---- MODULE Spec2Model ----
(***************************************************************************)
(* miniclawd: the agent loop (AgentLoop), the session store                *)
(* (SessionManager), the message tool and the gateway's scheduler callback *)
(* as a state machine.                                                     *)
(*                                                                         *)
(* JavaScript runs one task at a time; a task gives up control only at an  *)
(* await.  Every action below is the code that runs between two awaits of  *)
(* one task, so the interleavings of the actions are the interleavings     *)
(* the event loop can produce.                                             *)
(*                                                                         *)
(* Strings the code takes apart (chat ids, session keys, file names) are   *)
(* sequences of tokens: a token is one character the code looks for        *)
(* (":", "_", "/", " ") or a word that holds none of them.                 *)
(***************************************************************************)
EXTENDS Integers, Sequences, FiniteSets, TLC

VARIABLES
  inbound,    \* MessageBus inbound queue: Seq(InboundMessage)
  outbound,   \* MessageBus outbound queue: Seq(OutboundMessage)
  turn,       \* per lane: the processMessage call in progress, if any
  heap,       \* Session objects by reference: Seq([key, messages,
              \* createdAt, updatedAt, metadata])
  cache,      \* SessionManager.cache: key -> reference into heap
  disk,       \* ~/.miniclawd/sessions: path -> file [readable, lines]
  msgCtx,     \* MessageTool.defaultChannel/defaultChatId/defaultMetadata
  spawnCtx,   \* SpawnTool's origin context
  subagents,  \* origins of the subagents that are running
  job,        \* the ScheduledJob whose onJob callback is running
  store,      \* the scheduler's job list: job id -> [enabled, nextRunAtMs,
              \* runs]
  jobsFile,   \* cron/jobs.json: the job list as last persisted
  allowFrom,  \* config.channels.<name>.allowFrom: channel -> set of sender ids
  dispatch,   \* ChannelManager.dispatchOutbound: the send() it awaits, if any
  yunhuSend,  \* YunhuChannel._running and the send(msg) call in progress: its
              \* loop variable, the requests made, the errors caught, the
              \* delays waited, and how the last call ended
  now,        \* the system clock, in ticks
  running,    \* AgentLoop._running and ChannelManager.dispatchRunning, and
              \* whether the loop each of them guards has returned
  hist        \* history: counters of what the run loop has done so far, the
              \* last message a channel adapter was handed by its platform, the
              \* last call made on the session store from outside a turn,
              \* and what getOrCreate last returned for each key

vars == <<inbound, outbound, turn, heap, cache, disk, msgCtx, spawnCtx,
          subagents, job, store, jobsFile, allowFrom, dispatch, yunhuSend, now,
          running, hist>>

----------------------------------------------------------------------------
(* Bounds of the model *)

\* agents.defaults.maxToolIterations, kept small
MaxIterations == 2
\* how many inputs the environment gives in one run: channel messages, job
\* firings, model responses that ask for tools, and throws of buildMessages,
\* generateText or writeFileSync
MaxEvents == 3

----------------------------------------------------------------------------
(* Strings *)

None == << >>
Some(s) == <<s>>

\* String.prototype.includes for a one-character needle
Includes(s, c) == \E i \in 1..Len(s) : s[i] = c

\* index of the first c in s, 0 when there is none
RECURSIVE IndexOfFrom(_, _, _)
IndexOfFrom(s, c, i) ==
  IF i > Len(s) THEN 0
  ELSE IF s[i] = c THEN i
  ELSE IndexOfFrom(s, c, i + 1)

IndexOf(s, c) == IndexOfFrom(s, c, 1)

\* String.prototype.split(sep) without a limit: every piece
RECURSIVE SplitAll(_, _)
SplitAll(s, sep) ==
  LET i == IndexOf(s, sep) IN
  IF i = 0 THEN <<s>>
  ELSE <<SubSeq(s, 1, i - 1)>> \o SplitAll(SubSeq(s, i + 1, Len(s)), sep)

\* String.prototype.split(sep, limit): the first `limit` pieces; what follows
\* them is dropped, not kept in the last piece
Split(s, sep, limit) ==
  LET all == SplitAll(s, sep) IN
  IF Len(all) > limit THEN SubSeq(all, 1, limit) ELSE all

\* String.prototype.replace(c, d) with a string pattern: the first match only
ReplaceFirst(s, c, d) ==
  LET i == IndexOf(s, c) IN
  IF i = 0 THEN s ELSE [s EXCEPT ![i] = d]

\* String.prototype.trim
RECURSIVE Trim(_)
Trim(s) ==
  IF s = << >> THEN s
  ELSE IF Head(s) = " " THEN Trim(Tail(s))
  ELSE IF s[Len(s)] = " " THEN Trim(SubSeq(s, 1, Len(s) - 1))
  ELSE s

UnsafeChars == {"<", ">", ":", "\"", "/", "\\", "|", "?", "*"}

safeFilename(name) ==
  Trim([i \in 1..Len(name) |-> IF name[i] \in UnsafeChars THEN "_" ELSE name[i]])

----------------------------------------------------------------------------
(* Messages *)

SYSTEM == <<"system">>
CLI == <<"cli">>
DIRECT == <<"direct">>
TELEGRAM == <<"telegram">>
YUNHU == <<"yunhu">>
COLON == <<":">>
\* a metadata map is a record of its fields; the empty map has none
EmptyMetadata == << >>

\* the metadata the telegram adapter builds
TelegramMetadata == [messageId |-> "m1"]

YUNHU_CHAT_TYPE == [BOT |-> "bot", GROUP |-> "group"]
YUNHU_RECV_TYPE == [USER |-> "user", GROUP |-> "group"]

\* YunhuChannel.handleNormalMessage: the metadata built for a message of
\* sender in chat, of the fields the reply needs
YunhuMetadata(senderId, chat) ==
  IF chat.chatType = YUNHU_CHAT_TYPE.GROUP
  THEN [chatType |-> chat.chatType, senderId |-> senderId, groupId |-> chat.chatId]
  ELSE [chatType |-> chat.chatType, senderId |-> senderId]

\* YunhuChannel.parseRecvInfo: a group chat is answered in the group, a
\* private chat to its sender; without either field the chat id is used
parseRecvInfo(chatId, metadata) ==
  IF "chatType" \in DOMAIN metadata /\ metadata.chatType = YUNHU_CHAT_TYPE.GROUP
  THEN [recvType |-> YUNHU_RECV_TYPE.GROUP, recvId |-> chatId]
  ELSE IF "senderId" \in DOMAIN metadata /\ metadata.senderId # << >>
  THEN [recvType |-> YUNHU_RECV_TYPE.USER, recvId |-> metadata.senderId]
  ELSE [recvType |-> YUNHU_RECV_TYPE.USER, recvId |-> chatId]

\* what the channel adapters hand to handleMessage
ChannelMessages ==
  { [channel |-> TELEGRAM, senderId |-> <<"u1">>, chatId |-> <<"42">>,
     content |-> <<"hi">>, metadata |-> TelegramMetadata],
    [channel |-> YUNHU, senderId |-> <<"u2">>, chatId |-> <<"room", ":", "7">>,
     content |-> <<"yo">>,
     metadata |-> YunhuMetadata(<<"u2">>, [chatId |-> <<"room", ":", "7">>,
                                           chatType |-> "group"])] }

\* SubagentManager's announce of a finished subagent
AnnounceMessage(origin) ==
  [channel |-> SYSTEM, senderId |-> <<"subagent">>,
   chatId |-> origin.channel \o COLON \o origin.chatId,
   content |-> <<"task done">>, metadata |-> EmptyMetadata]

getSessionKey(msg) == msg.channel \o COLON \o msg.chatId

createOutboundMessage(channel, chatId, content, metadata) ==
  [channel |-> channel, chatId |-> chatId, content |-> content,
   metadata |-> metadata]

\* processDirect's synthetic message: the sessionKey argument is not used
DirectMessage(content, sessionKey) ==
  [channel |-> CLI, senderId |-> <<"user">>, chatId |-> DIRECT,
   content |-> content, metadata |-> EmptyMetadata]

\* MessageBus.consume...WithTimeout: the place of the item it removes and
\* returns, the oldest
consumeIndex(q) == 1

Without(q, i) == SubSeq(q, 1, i - 1) \o SubSeq(q, i + 1, Len(q))

NormalFallback == <<"I've completed processing but have no response to give.">>
SystemFallback == <<"Background task completed.">>

----------------------------------------------------------------------------
(* Session store *)

DefaultMaxMessages == 50

\* a Date holds a time value; NaN is the time value of an Invalid Date
NaN == -1

newDateNow == [time |-> now]

\* Date.prototype.toISOString, for a valid date
toISOString(date) == [text |-> "iso", time |-> date.time]

\* new Date(string): the date the string denotes, or an Invalid Date
newDate(string) ==
  IF string.text = "iso" THEN [time |-> string.time] ELSE [time |-> NaN]

createSession(key) ==
  [key |-> key, messages |-> << >>, createdAt |-> newDateNow,
   updatedAt |-> newDateNow, metadata |-> EmptyMetadata]

SessionMessage(role, content) ==
  [role |-> role, content |-> content, timestamp |-> toISOString(newDateNow)]

\* a store that keeps only the answers
addMessageSkipsUser(messages, role, content) ==
  IF role = "user" THEN messages
  ELSE Append(messages, SessionMessage(role, content))

addMessage(messages, role, content) == Append(messages, SessionMessage(role, content))

\* Array.prototype.slice(start): the elements from index start on; a
\* negative start counts from the end, and -0 is 0
slice(array, start) ==
  LET from == IF start < 0
              THEN (IF Len(array) + start > 0 THEN Len(array) + start ELSE 0)
              ELSE (IF start < Len(array) THEN start ELSE Len(array))
  IN SubSeq(array, from + 1, Len(array))

getHistory(messages, maxMessages) ==
  LET recent == IF Len(messages) > maxMessages
                THEN slice(messages, 0 - maxMessages)
                ELSE messages
  IN [i \in 1..Len(recent) |-> [role |-> recent[i].role, content |-> recent[i].content]]

getSessionPath(key) == safeFilename(ReplaceFirst(key, ":", "_")) \o <<".jsonl">>

\* JSON.stringify of a value: a line of text that parses back to the value
stringify(data) == [json |-> data]

\* JSON.parse throws on a line that is not JSON text
ParseThrows(line) == "json" \notin DOMAIN line

JSONparse(line) == line.json

MetadataLine(session) ==
  stringify([type |-> "metadata",
             createdAt |-> toISOString(session.createdAt),
             updatedAt |-> toISOString(session.updatedAt),
             metadata |-> session.metadata])

\* toISOString throws a RangeError on an Invalid Date, before anything is
\* written
SaveThrows(session) ==
  session.createdAt.time = NaN \/ session.updatedAt.time = NaN

\* the lines save() writes: the metadata line, then one line per message
FileOf(session) ==
  <<MetadataLine(session)>> \o
  [i \in 1..Len(session.messages) |-> stringify(session.messages[i])]

\* writeFileSync leaves a regular file with these lines
WrittenFile(lines) == [readable |-> TRUE, lines |-> lines]

IsMetadataLine(data) == "type" \in DOMAIN data /\ data.type = "metadata"

\* the loop of load() over the lines: it stops at the first line that
\* JSON.parse rejects
RECURSIVE ParseLines(_, _, _, _)
ParseLines(lines, messages, metadata, createdAt) ==
  IF lines = << >>
  THEN [throws |-> FALSE, messages |-> messages, metadata |-> metadata,
        createdAt |-> createdAt]
  ELSE IF ParseThrows(Head(lines))
  THEN [throws |-> TRUE, messages |-> messages, metadata |-> metadata,
        createdAt |-> createdAt]
  ELSE LET data == JSONparse(Head(lines)) IN
       IF IsMetadataLine(data)
       THEN ParseLines(Tail(lines), messages,
                       IF "metadata" \in DOMAIN data
                       THEN data.metadata ELSE EmptyMetadata,
                       IF "createdAt" \in DOMAIN data
                       THEN Some(newDate(data.createdAt)) ELSE None)
       ELSE ParseLines(Tail(lines), Append(messages, data), metadata, createdAt)

\* load(key): None when there is no file or when reading or parsing it
\* throws, else the session read from it
load(key, d) ==
  LET path == getSessionPath(key) IN
  IF path \notin DOMAIN d THEN None
  ELSE IF ~d[path].readable THEN None
  ELSE LET parsed == ParseLines(d[path].lines, << >>, EmptyMetadata, None)
       IN IF parsed.throws THEN None
          ELSE Some([key |-> key, messages |-> parsed.messages,
                     createdAt |-> IF parsed.createdAt # None
                                   THEN parsed.createdAt[1] ELSE newDateNow,
                     updatedAt |-> newDateNow,
                     metadata |-> parsed.metadata])

\* a getOrCreate that reads the record again although the key is cached
getOrCreateAlwaysLoads(key, h, c, d) ==
  LET loaded == load(key, d)
      session == IF loaded # None THEN loaded[1] ELSE createSession(key)
  IN [ref |-> Len(h) + 1, heap |-> Append(h, session),
      cache |-> (key :> (Len(h) + 1)) @@ c]

\* getOrCreate(key): the reference returned, and the heap and cache after it
getOrCreate(key, h, c, d) ==
  IF key \in DOMAIN c
  THEN [ref |-> c[key], heap |-> h, cache |-> c]
  ELSE LET loaded == load(key, d)
           session == IF loaded # None THEN loaded[1] ELSE createSession(key)
       IN [ref |-> Len(h) + 1, heap |-> Append(h, session),
           cache |-> (key :> (Len(h) + 1)) @@ c]

----------------------------------------------------------------------------
(* The model provider and the tools *)

ReadBad(id) == [id |-> id, name |-> "read_file", arguments |-> [path |-> <<"missing.txt">>]]
MessageCall(id) == [id |-> id, name |-> "message", arguments |-> [content |-> <<"note">>]]
SpawnCall(id) == [id |-> id, name |-> "spawn", arguments |-> [task |-> <<"dig">>]]

\* what generateText can do: return text and tool calls, or throw
GenerateResults ==
  { [throws |-> FALSE, text |-> <<"answer">>, toolCalls |-> << >>],
    [throws |-> FALSE, text |-> << >>, toolCalls |-> << >>],
    [throws |-> TRUE, text |-> << >>, toolCalls |-> << >>],
    [throws |-> FALSE, text |-> <<"thinking">>,
     toolCalls |-> <<ReadBad("t1"), MessageCall("t2")>>],
    [throws |-> FALSE, text |-> << >>, toolCalls |-> <<SpawnCall("t1")>>] }

\* a provider whose catch block returns no content
chatErrorWithoutText(generated) ==
  [content |-> IF generated.throws \/ generated.text = << >>
               THEN None ELSE Some(generated.text),
   toolCalls |-> generated.toolCalls]

\* AIProvider.chat: the text or null, the tool calls; an error becomes text
chat(generated) ==
  IF generated.throws
  THEN [content |-> Some(<<"Error calling LLM: ", "boom">>), toolCalls |-> << >>]
  ELSE [content |-> IF generated.text = << >> THEN None ELSE Some(generated.text),
        toolCalls |-> generated.toolCalls]

hasToolCalls(response) == Len(response.toolCalls) > 0

\* the send callback of a MessageTool: none configured, the gateway's
\* (msg) => bus.publishOutbound(msg), or one that throws
NO_CALLBACK == "null"
PUBLISH_OUTBOUND == "publishOutbound"
THROWING_CALLBACK == "throws"
SendCallbacks == {NO_CALLBACK, PUBLISH_OUTBOUND, THROWING_CALLBACK}

\* new MessageTool({ sendCallback }): no default target yet
MessageTool(sendCallback) ==
  [channel |-> << >>, chatId |-> << >>, metadata |-> EmptyMetadata,
   sendCallback |-> sendCallback]

\* MessageTool.setContext
setContext(tool, channel, chatId, metadata) ==
  [tool EXCEPT !.channel = channel, !.chatId = chatId, !.metadata = metadata]

\* MessageTool.setSendCallback
setSendCallback(tool, callback) == [tool EXCEPT !.sendCallback = callback]

\* params.channel, params.chat_id: empty when the call does not give them
Param(call, name) ==
  IF name \in DOMAIN call.arguments THEN call.arguments[name] ELSE << >>

\* params.channel || this.defaultChannel, params.chat_id || this.defaultChatId
TargetOf(call, tool) ==
  [channel |-> IF Param(call, "channel") # << >> THEN Param(call, "channel")
               ELSE tool.channel,
   chatId |-> IF Param(call, "chat_id") # << >> THEN Param(call, "chat_id")
              ELSE tool.chatId]

HasTarget(call, tool) ==
  TargetOf(call, tool).channel # << >> /\ TargetOf(call, tool).chatId # << >>

\* MessageTool.execute reaches the send callback: there is a target and a
\* callback is set
MessageToolSends(call, tool) ==
  HasTarget(call, tool) /\ tool.sendCallback # NO_CALLBACK

\* a registry that runs the message tool's send for every tool call
MessageToolSentForAnyTool(call, ctx) ==
  IF MessageToolSends(call, ctx)
  THEN <<createOutboundMessage(ctx.channel, ctx.chatId, <<"note">>, ctx.metadata)>>
  ELSE << >>

\* a message tool that calls the bus before it looks at its target
MessageToolSentUnchecked(call, tool) ==
  IF call.name = "message"
  THEN <<createOutboundMessage(TargetOf(call, tool).channel,
                               TargetOf(call, tool).chatId,
                               call.arguments.content, tool.metadata)>>
  ELSE << >>

\* MessageTool.execute up to its await: what the send callback publishes
MessageToolSent(call, tool) ==
  IF /\ call.name = "message"
     /\ MessageToolSends(call, tool)
     /\ tool.sendCallback = PUBLISH_OUTBOUND
  THEN <<createOutboundMessage(TargetOf(call, tool).channel,
                               TargetOf(call, tool).chatId,
                               call.arguments.content, tool.metadata)>>
  ELSE << >>

\* SpawnTool.execute: the origins of the subagents it starts
Spawned(call, ctx) == IF call.name = "spawn" THEN <<ctx>> ELSE << >>

\* MessageTool.execute: the string it returns
MessageToolResult(call, tool) ==
  IF ~HasTarget(call, tool)
  THEN <<"Error: ", "No target channel/chat specified">>
  ELSE IF tool.sendCallback = NO_CALLBACK
  THEN <<"Error: ", "Message sending not configured">>
  ELSE IF tool.sendCallback = THROWING_CALLBACK
  THEN <<"Error sending message: ", "boom">>
  ELSE <<"Message sent to ">> \o TargetOf(call, tool).channel \o COLON
         \o TargetOf(call, tool).chatId

\* ToolRegistry.execute: the text a tool call returns; a failure is text too
ToolResult(call, ctx) ==
  CASE call.name = "read_file" -> <<"Error: ", "File not found: ">> \o call.arguments.path
    [] call.name = "message" -> MessageToolResult(call, ctx)
    [] call.name = "spawn" -> <<"Subagent started">>
    [] OTHER -> <<"Error: ", "Tool not found">>

----------------------------------------------------------------------------
(* The turn engine: AgentLoop.processMessage and processSystemMessage *)

Lanes == {"bus", "sched"}

NoMessage == [channel |-> << >>, senderId |-> << >>, chatId |-> << >>,
              content |-> << >>, metadata |-> EmptyMetadata]

IdleTurn ==
  [pc |-> "idle", msg |-> NoMessage, system |-> FALSE,
   originChannel |-> << >>, originChatId |-> << >>, session |-> 0,
   messages |-> << >>, iteration |-> 0, calls |-> << >>, started |-> 0,
   current |-> 0, pending |-> << >>, result |-> None]

\* processSystemMessage: the origin parsed out of the chat id
ParseOrigin(chatId) ==
  IF Includes(chatId, ":")
  THEN LET parts == Split(chatId, ":", 2)
       IN [channel |-> parts[1], chatId |-> parts[2]]
  ELSE [channel |-> CLI, chatId |-> chatId]

\* the channel and chat the turn works for
TurnTarget(msg) ==
  IF msg.channel = SYSTEM THEN ParseOrigin(msg.chatId)
  ELSE [channel |-> msg.channel, chatId |-> msg.chatId]

TurnSessionKey(msg) ==
  IF msg.channel = SYSTEM
  THEN ParseOrigin(msg.chatId).channel \o COLON \o ParseOrigin(msg.chatId).chatId
  ELSE getSessionKey(msg)

\* ContextBuilder.buildMessages: the history, then the new user content
buildMessages(history, content) == Append(history, [role |-> "user", content |-> content])

\* a loop that runs once more than the cap
LoopConditionInclusive(iteration) == iteration <= MaxIterations

\* the while condition of the tool loop
LoopCondition(iteration) == iteration < MaxIterations

AssistantEntry(response) ==
  [role |-> "assistant", text |-> response.content, calls |-> response.toolCalls]

\* a tool entry that loses the text the tool returned
ToolEntryWithoutResult(call, result) ==
  [role |-> "tool", toolCallId |-> call.id, toolName |-> call.name, result |-> << >>]

ToolEntry(call, result) ==
  [role |-> "tool", toolCallId |-> call.id, toolName |-> call.name, result |-> result]

\* a loop that walks the tool calls from the last to the first
NextToolIndexReversed(t) == Len(t.calls) - t.started

\* the index of the tool call the for loop runs next
NextToolIndex(t) == t.started + 1

UserEntryContent(t) ==
  IF t.system THEN <<"[System: ">> \o t.msg.senderId \o <<"] ">> \o t.msg.content
  ELSE t.msg.content

\* one fallback string for both kinds of turn
FallbackOfNormalTurn(t) == NormalFallback

Fallback(t) == IF t.system THEN SystemFallback ELSE NormalFallback

\* a reply addressed from the message tool's shared context
TurnReplyFromContext(t, finalContent) ==
  createOutboundMessage(msgCtx.channel, msgCtx.chatId, finalContent, msgCtx.metadata)

\* the OutboundMessage the turn returns
TurnReply(t, finalContent) ==
  IF t.system
  THEN createOutboundMessage(t.originChannel, t.originChatId, finalContent, EmptyMetadata)
  ELSE createOutboundMessage(t.msg.channel, t.msg.chatId, finalContent, t.msg.metadata)

\* processMessage up to its first await: the session is resolved, the tools'
\* contexts are set and the history is read
StartTurn(l, msg) ==
  LET target == TurnTarget(msg)
      got == getOrCreate(TurnSessionKey(msg), heap, cache, disk)
  IN /\ heap' = got.heap
     /\ cache' = got.cache
     /\ msgCtx' = setContext(msgCtx, target.channel, target.chatId, msg.metadata)
     /\ spawnCtx' = [channel |-> target.channel, chatId |-> target.chatId]
     /\ turn' = [turn EXCEPT ![l] =
                  [IdleTurn EXCEPT
                     !.pc = "build", !.msg = msg,
                     !.system = (msg.channel = SYSTEM),
                     !.originChannel = target.channel,
                     !.originChatId = target.chatId,
                     !.session = got.ref,
                     !.messages = getHistory(got.heap[got.ref].messages,
                                             DefaultMaxMessages)]]

\* whether save() returns: toISOString throws on an Invalid Date, and
\* writeFileSync may throw
SaveOutcomes(session, h) ==
  IF SaveThrows(session) THEN {FALSE}
  ELSE {TRUE} \cup {FALSE : x \in {h.events} \cap 0..(MaxEvents - 1)}

\* the end of a turn: the fallback, addMessage twice, save, the reply.
\* writeFileSync may throw; then the cache entry is not set and the turn throws
Persist(l, t, finalContent, h) ==
  LET final == IF finalContent = None THEN Fallback(t) ELSE finalContent[1]
      session == heap[t.session]
      withUser == addMessage(session.messages, "user", UserEntryContent(t))
      withBoth == addMessage(withUser, "assistant", final)
      saved == [session EXCEPT !.messages = withBoth, !.updatedAt = newDateNow]
  IN /\ heap' = [heap EXCEPT ![t.session] = saved]
     /\ \E written \in SaveOutcomes(saved, h) :
          IF written
          THEN /\ disk' = (getSessionPath(saved.key) :> WrittenFile(FileOf(saved))) @@ disk
               /\ cache' = (saved.key :> t.session) @@ cache
               /\ turn' = [turn EXCEPT ![l] =
                            [t EXCEPT !.pc = "done",
                                      !.result = Some(TurnReply(t, final))]]
               /\ hist' = h
          ELSE /\ disk' = disk
               /\ cache' = cache
               /\ turn' = [turn EXCEPT ![l] = [t EXCEPT !.pc = "threw"]]
               /\ hist' = IF SaveThrows(saved) THEN h
                          ELSE [h EXCEPT !.events = @ + 1]

\* the top of the while loop: one more model call, or the cap is reached
Continue(l, t) ==
  IF LoopCondition(t.iteration)
  THEN /\ turn' = [turn EXCEPT ![l] = [t EXCEPT !.iteration = @ + 1, !.pc = "chat"]]
       /\ UNCHANGED <<heap, cache, disk, hist>>
  ELSE Persist(l, t, None, hist)

\* tools.execute up to the tool's await: the message tool publishes, the
\* spawn tool starts a subagent for the origin in its context
Invoke(l, t, h) ==
  LET i == NextToolIndex(t)
      call == t.calls[i]
      sent == MessageToolSent(call, msgCtx)
  IN /\ turn' = [turn EXCEPT ![l] =
                  [t EXCEPT !.pc = "tool", !.started = @ + 1, !.current = i,
                            !.pending = ToolResult(call, msgCtx)]]
     /\ outbound' = outbound \o sent
     /\ subagents' = subagents \o Spawned(call, spawnCtx)
     /\ hist' = [h EXCEPT !.toolPub = IF l = "bus" THEN @ + Len(sent) ELSE @]

\* buildMessages returns; the loop is entered
BuildDone(l) ==
  /\ turn[l].pc = "build"
  /\ Continue(l, [turn[l] EXCEPT
                    !.messages = buildMessages(@, turn[l].msg.content)])
  /\ UNCHANGED <<running, now, jobsFile, allowFrom, yunhuSend, inbound, outbound, msgCtx, spawnCtx, subagents, job, dispatch, store>>

\* buildMessages throws
BuildThrows(l) ==
  /\ turn[l].pc = "build"
  /\ hist.events < MaxEvents
  /\ turn' = [turn EXCEPT ![l].pc = "threw"]
  /\ hist' = [hist EXCEPT !.events = @ + 1]
  /\ UNCHANGED <<running, now, jobsFile, allowFrom, yunhuSend, inbound, outbound, heap, cache, disk, msgCtx, spawnCtx,
                 subagents, job, dispatch, store>>

\* provider.chat returns
ChatReturn(l, generated) ==
  /\ turn[l].pc = "chat"
  /\ (generated.toolCalls # << >> \/ generated.throws) => hist.events < MaxEvents
  /\ LET response == chat(generated) IN
     IF hasToolCalls(response)
     THEN /\ Invoke(l, [turn[l] EXCEPT
                          !.messages = Append(@, AssistantEntry(response)),
                          !.calls = response.toolCalls,
                          !.started = 0],
                    [hist EXCEPT !.events = @ + 1])
          /\ UNCHANGED <<heap, cache, disk>>
     ELSE /\ Persist(l, turn[l], response.content,
                     [hist EXCEPT !.events = IF generated.throws THEN @ + 1 ELSE @])
          /\ UNCHANGED <<outbound, subagents>>
  /\ UNCHANGED <<running, now, jobsFile, allowFrom, yunhuSend, inbound, msgCtx, spawnCtx, job, dispatch, store>>

\* tools.execute returns: the tool entry is pushed, the next call is made
ToolReturn(l) ==
  /\ turn[l].pc = "tool"
  /\ LET call == turn[l].calls[turn[l].current]
         t == [turn[l] EXCEPT
                 !.messages = Append(@, ToolEntry(call, turn[l].pending)),
                 !.pending = << >>]
     IN IF t.started < Len(t.calls)
        THEN /\ Invoke(l, t, hist)
             /\ UNCHANGED <<heap, cache, disk>>
        ELSE /\ Continue(l, t)
             /\ UNCHANGED <<outbound, subagents>>
  /\ UNCHANGED <<running, now, jobsFile, allowFrom, yunhuSend, inbound, msgCtx, spawnCtx, job, dispatch, store>>

----------------------------------------------------------------------------
(* AgentLoop.run *)

\* run() and startAll() have set both flags; neither loop has returned
RUNNING == "running"
STOPPING == "stopping"
EXITED == "exited"
Started == [agent |-> RUNNING, dispatcher |-> RUNNING]

\* a loop written while (true)
WhileTrue(flag) == flag

\* while (this._running), while (this.dispatchRunning): the loop returns when
\* it finds its flag false at the top
While(flag) == IF flag = STOPPING THEN EXITED ELSE flag

\* a loop that does not wait for processMessage
CanConsumeAlways == TRUE

\* the loop is at consumeInboundWithTimeout: no message is being processed
CanConsume == turn["bus"].pc = "idle" /\ running.agent # EXITED

\* a loop whose catch block publishes nothing
RunRepliesOnlyOnSuccess(t) ==
  IF t.pc = "done" THEN <<t.result[1]>> ELSE << >>

\* what the loop publishes once processMessage has settled: the response, or
\* the error reply of the catch block
RunReplies(t) ==
  IF t.pc = "done" THEN <<t.result[1]>>
  ELSE <<createOutboundMessage(t.msg.channel, t.msg.chatId,
           <<"Sorry, I encountered an error: ", "Error">>, t.msg.metadata)>>

RunConsume ==
  /\ CanConsume
  /\ inbound # << >>
  /\ inbound' = Without(inbound, consumeIndex(inbound))
  /\ StartTurn("bus", inbound[consumeIndex(inbound)])
  /\ hist' = [hist EXCEPT !.consumed = @ + 1, !.loopPub = 0, !.toolPub = 0,
                          !.sinceStop = IF running.agent = STOPPING
                                        THEN @ + 1 ELSE @,
                          !.before = heap'[turn'["bus"].session].messages]
  /\ UNCHANGED <<running, now, jobsFile, allowFrom, yunhuSend, outbound, disk, subagents, job, dispatch, store>>

RunPublish ==
  /\ turn["bus"].pc \in {"done", "threw"}
  /\ outbound' = outbound \o RunReplies(turn["bus"])
  /\ hist' = [hist EXCEPT !.replied = @ + 1,
                          !.loopPub = @ + Len(RunReplies(turn["bus"]))]
  /\ turn' = [turn EXCEPT !["bus"] = IdleTurn]
  /\ running' = [running EXCEPT !.agent = While(@)]
  /\ UNCHANGED <<now, jobsFile, allowFrom, yunhuSend, inbound, heap, cache, disk, msgCtx, spawnCtx,
                 subagents, job, dispatch, store>>

\* consumeInboundWithTimeout returns nothing: the loop goes to its top, where
\* it returns if stop() has been called
RunTimeout ==
  /\ CanConsume
  /\ inbound = << >>
  /\ running.agent = STOPPING
  /\ running' = [running EXCEPT !.agent = While(@)]
  /\ UNCHANGED <<now, jobsFile, allowFrom, yunhuSend, inbound, outbound, turn, heap, cache, disk,
                 msgCtx, spawnCtx, subagents, job, dispatch, store, hist>>

\* AgentLoop.stop()
stop(flags) == [flags EXCEPT !.agent = IF @ = RUNNING THEN STOPPING ELSE @]

----------------------------------------------------------------------------
(* The gateway's scheduler: a due job is handed to onJob *)

\* the jobs `cron add` has put in the job list: --every with --deliver and
\* --to, --every with --to alone, --at with --deliver and --channel alone
Jobs ==
  { [id |-> <<"j1">>, schedule |-> "every", everyMs |-> 2, atMs |-> 0,
     payload |-> [message |-> <<"report">>, deliver |-> TRUE,
                  channel |-> None, to |-> Some(<<"42">>)]],
    [id |-> <<"j2">>, schedule |-> "every", everyMs |-> 1, atMs |-> 0,
     payload |-> [message |-> <<"tidy">>, deliver |-> FALSE,
                  channel |-> None, to |-> Some(<<"42">>)]],
    [id |-> <<"j3">>, schedule |-> "at", everyMs |-> 0, atMs |-> 0,
     payload |-> [message |-> <<"remind">>, deliver |-> TRUE,
                  channel |-> Some(YUNHU), to |-> None]] }

\* the jobs that run again and again
RecurringJobs == {j \in Jobs : j.schedule = "every"}

\* a scheduler that keeps to the timetable: the next run is one interval
\* after the time the job was scheduled for, however late it ran
AfterRunOnSchedule(j, entry) ==
  [enabled |-> IF j.schedule = "at" THEN FALSE ELSE entry.enabled,
   nextRunAtMs |-> IF j.schedule = "every" THEN entry.nextRunAtMs + j.everyMs
                   ELSE entry.nextRunAtMs,
   runs |-> entry.runs + 1]

\* a scheduler that leaves a one-time job enabled
AfterRunStaysEnabled(j, entry) ==
  [entry EXCEPT !.runs = @ + 1,
                !.nextRunAtMs = IF j.schedule = "every" THEN now + j.everyMs
                                ELSE @]

\* the tick's update of a due job before it is run: an `at` job is disabled,
\* the others get their next run time and stay enabled
AfterRun(j, entry) ==
  [enabled |-> IF j.schedule = "at" THEN FALSE ELSE entry.enabled,
   nextRunAtMs |-> IF j.schedule = "every" THEN now + j.everyMs
                   ELSE entry.nextRunAtMs,
   runs |-> entry.runs + 1]

\* a scheduler that runs whatever is enabled, due or not
DueWhenEnabled(j) == store[j.id].enabled

\* a tick finds the job due: it is enabled and its next run time has come
Due(j) == store[j.id].enabled /\ store[j.id].nextRunAtMs <= now

\* the document the tick writes: the whole job list
saveStore(updated) ==
  [id \in DOMAIN updated |->
     [enabled |-> updated[id].enabled,
      nextRunAtMs |-> updated[id].nextRunAtMs]]

JobSessionKey(j) == <<"scheduler", ":">> \o j.id

\* an onJob that delivers to whoever is configured, asked or not
JobDeliveryUnasked(j, response) ==
  IF j.payload.to # None
  THEN <<createOutboundMessage(
           IF j.payload.channel # None THEN j.payload.channel[1] ELSE TELEGRAM,
           j.payload.to[1], response, EmptyMetadata)>>
  ELSE << >>

\* onJob after processDirect has returned: the delivery, if asked for
JobDelivery(j, response) ==
  IF j.payload.deliver /\ j.payload.to # None
  THEN <<createOutboundMessage(
           IF j.payload.channel # None THEN j.payload.channel[1] ELSE TELEGRAM,
           j.payload.to[1], response, EmptyMetadata)>>
  ELSE << >>

\* processDirect's return value: response?.content || ""
DirectResult(t) == IF t.result = None THEN << >> ELSE t.result[1].content

JobFire(j) ==
  /\ job = None
  /\ turn["sched"].pc = "idle"
  /\ Due(j)
  /\ hist.events < MaxEvents
  /\ store' = [store EXCEPT ![j.id] = AfterRun(j, @)]
  /\ jobsFile' = saveStore(store')
  /\ job' = Some(j)
  /\ StartTurn("sched", DirectMessage(j.payload.message, JobSessionKey(j)))
  /\ hist' = [hist EXCEPT !.events = @ + 1]
  /\ UNCHANGED <<running, now, allowFrom, yunhuSend, inbound, outbound, disk, subagents, dispatch>>

\* the clock reaches the next time for which a job is scheduled
NextScheduledTimes ==
  {store[id].nextRunAtMs : id \in {i \in DOMAIN store : store[i].enabled}}
  \ 0..now

TimePasses ==
  /\ NextScheduledTimes # {}
  /\ now' = CHOOSE t \in NextScheduledTimes :
              \A u \in NextScheduledTimes : t <= u
  /\ UNCHANGED <<running, jobsFile, allowFrom, yunhuSend, inbound, outbound, turn, heap, cache, disk, msgCtx,
                 spawnCtx, subagents, job, store, dispatch, hist>>

JobDone ==
  /\ job # None
  /\ turn["sched"].pc = "done"
  /\ outbound' = outbound \o JobDelivery(job[1], DirectResult(turn["sched"]))
  /\ turn' = [turn EXCEPT !["sched"] = IdleTurn]
  /\ job' = None
  /\ UNCHANGED <<running, now, jobsFile, allowFrom, yunhuSend, inbound, heap, cache, disk, msgCtx, spawnCtx, subagents, hist, dispatch, store>>

\* processDirect threw: onJob rejects and the scheduler goes on
JobThrew ==
  /\ job # None
  /\ turn["sched"].pc = "threw"
  /\ turn' = [turn EXCEPT !["sched"] = IdleTurn]
  /\ job' = None
  /\ UNCHANGED <<running, now, jobsFile, allowFrom, yunhuSend, inbound, outbound, heap, cache, disk, msgCtx, spawnCtx,
                 subagents, hist, dispatch, store>>

----------------------------------------------------------------------------
(* ChannelManager.dispatchOutbound *)

\* ChannelManager.channels: the adapters of the channels the config enables
EnabledChannels == {TELEGRAM, YUNHU}

\* a dispatcher that hands what it cannot place to the telegram adapter
DispatchTargetOrTelegram(msg) ==
  IF msg.channel \in EnabledChannels THEN Some(msg.channel) ELSE Some(TELEGRAM)

\* this.channels.get(msg.channel): the adapter, if there is one
DispatchTarget(msg) ==
  IF msg.channel \in EnabledChannels THEN Some(msg.channel) ELSE None

DispatchIdle == [pc |-> "idle", adapter |-> None, msg |-> None]

\* a dispatcher with no try around channel.send: the rejection ends the loop
SendErrorUncaught(flag) == EXITED

\* try { await channel.send(msg) } catch { log }: the loop is as it was
SendErrorCaught(flag) == flag

\* a dispatcher that does not await channel.send
DispatchReadyAlways == TRUE

\* the dispatcher is at consumeOutboundWithTimeout: no send is awaited
DispatchReady == dispatch.pc = "idle" /\ running.dispatcher # EXITED

\* consumeOutboundWithTimeout returns a message: channel.send(msg) is called
\* on its adapter, or "Unknown channel" is logged and the loop goes on
DispatchConsume ==
  /\ DispatchReady
  /\ outbound # << >>
  /\ LET i == consumeIndex(outbound)
         msg == outbound[i]
         channel == DispatchTarget(msg)
     IN /\ outbound' = Without(outbound, i)
        /\ dispatch' = IF channel # None
                       THEN [pc |-> "sending", adapter |-> channel, msg |-> Some(msg)]
                       ELSE DispatchIdle
        /\ running' = IF channel # None THEN running
                      ELSE [running EXCEPT !.dispatcher = While(@)]
  /\ hist' = [hist EXCEPT !.sentSinceStop = IF running.dispatcher = STOPPING
                                            THEN @ + 1 ELSE @]
  /\ UNCHANGED <<now, jobsFile, allowFrom, yunhuSend, inbound, turn, heap, cache, disk, msgCtx, spawnCtx,
                 subagents, job, store>>

\* channel.send settles: resolved, or rejected and logged
DispatchSent ==
  /\ dispatch.pc = "sending"
  /\ dispatch' = DispatchIdle
  /\ running' = [running EXCEPT !.dispatcher = While(@)]
  /\ UNCHANGED <<now, jobsFile, allowFrom, yunhuSend, inbound, outbound, turn, heap, cache, disk,
                 msgCtx, spawnCtx, subagents, job, hist, store>>

\* channel.send rejects: the catch block logs, and the loop goes on
DispatchSendThrows ==
  /\ dispatch.pc = "sending"
  /\ hist.events < MaxEvents
  /\ dispatch' = DispatchIdle
  /\ running' = [running EXCEPT !.dispatcher = While(SendErrorCaught(@))]
  /\ hist' = [hist EXCEPT !.events = @ + 1, !.sendThrew = @ + 1]
  /\ UNCHANGED <<now, jobsFile, allowFrom, yunhuSend, inbound, outbound, turn, heap, cache, disk,
                 msgCtx, spawnCtx, subagents, job, store>>

\* consumeOutboundWithTimeout returns nothing: the loop goes to its top,
\* where it returns if stopAll() has been called
DispatchTimeout ==
  /\ DispatchReady
  /\ outbound = << >>
  /\ running.dispatcher = STOPPING
  /\ running' = [running EXCEPT !.dispatcher = While(@)]
  /\ UNCHANGED <<now, jobsFile, allowFrom, yunhuSend, inbound, outbound, turn, heap, cache, disk,
                 msgCtx, spawnCtx, subagents, job, dispatch, store, hist>>

\* ChannelManager.stopAll(), up to its first await
stopAll(flags) ==
  [flags EXCEPT !.dispatcher = IF @ = RUNNING THEN STOPPING ELSE @]

\* the gateway's shutdown handler, up to its first await: agent.stop() and
\* the first statement of channels.stopAll()
Shutdown ==
  /\ running = Started
  /\ running' = stopAll(stop(running))
  /\ UNCHANGED <<now, jobsFile, allowFrom, yunhuSend, inbound, outbound, turn, heap, cache, disk,
                 msgCtx, spawnCtx, subagents, job, dispatch, store, hist>>

----------------------------------------------------------------------------
(* The producers of inbound messages *)

\* the default of every channel's allowFrom: the empty list
AllowAll == [c \in {TELEGRAM, YUNHU} |-> {}]

\* an allow list that is not consulted
isAllowedAnyone(senderId, list) == TRUE

\* BaseChannel.isAllowed: an empty list allows everyone; otherwise the sender
\* id, or one of the ids it is made of ("id|username"), must be on the list
isAllowed(senderId, list) ==
  \/ list = {}
  \/ senderId \in list
  \/ /\ Includes(senderId, "|")
     /\ \E i \in 1..Len(SplitAll(senderId, "|")) :
          SplitAll(senderId, "|")[i] \in list

\* BaseChannel.handleMessage: what it publishes to the inbound queue
handleMessage(m) ==
  IF isAllowed(m.senderId, allowFrom[m.channel]) THEN <<m>> ELSE << >>

\* YunhuChannel.handleNormalMessage: its own check of the sender, then
\* handleMessage
handleNormalMessage(m) ==
  IF ~isAllowed(m.senderId, allowFrom[m.channel]) THEN << >>
  ELSE handleMessage(m)

\* TelegramChannel.onMessage: the sender id is built, then handleMessage
onMessage(m) == handleMessage(m)

\* a channel adapter is handed a message by its platform
ChannelReceive(m) ==
  /\ hist.events < MaxEvents
  /\ inbound' = inbound \o (IF m.channel = YUNHU THEN handleNormalMessage(m)
                             ELSE onMessage(m))
  /\ hist' = [hist EXCEPT !.events = @ + 1, !.event = Some(m)]
  /\ UNCHANGED <<running, now, jobsFile, allowFrom, yunhuSend, outbound, turn, heap, cache, disk, msgCtx, spawnCtx,
                 subagents, job, dispatch, store>>

\* a subagent finishes and announces itself on the system channel
SubagentDone(i) ==
  /\ i \in 1..Len(subagents)
  /\ inbound' = Append(inbound, AnnounceMessage(subagents[i]))
  /\ subagents' = SubSeq(subagents, 1, i - 1) \o SubSeq(subagents, i + 1, Len(subagents))
  /\ UNCHANGED <<running, now, jobsFile, allowFrom, yunhuSend, outbound, turn, heap, cache, disk, msgCtx, spawnCtx, job, hist, dispatch, store>>

----------------------------------------------------------------------------
(* YunhuChannel.send *)

MAX_RETRIES == 3

\* a backoff that grows by one second a time
delayLinear(attempt) == attempt * 1000

\* Math.pow(2, attempt) * 1000
delay(attempt) == (2 ^ attempt) * 1000

\* no send() has been called; start() has set _running
SendIdle ==
  [running |-> TRUE, pc |-> "idle", msg |-> None, started |-> FALSE,
   attempt |-> 0, requests |-> << >>, errors |-> << >>, waits |-> << >>,
   outcome |-> "none", thrown |-> None]

\* what sendMessageInternal can throw
SendErrors == {<<"Yunhu API returned null response">>, <<"Yunhu API error: ", "busy">>}

\* the messages the dispatcher hands to the channel
YunhuOutbound ==
  { createOutboundMessage(YUNHU, <<"g7">>, <<"answer">>,
                          YunhuMetadata(<<"u2">>, [chatId |-> <<"g7">>,
                                                   chatType |-> "group"])),
    createOutboundMessage(YUNHU, <<"bot1">>, <<"answer">>,
                          YunhuMetadata(<<"u3">>, [chatId |-> <<"bot1">>,
                                                   chatType |-> "bot"])),
    createOutboundMessage(YUNHU, <<"g7">>, <<"report">>, EmptyMetadata) }

\* sendMessageInternal up to its call of the API: the request it makes
sendMessageInternal(msg) == parseRecvInfo(msg.chatId, msg.metadata)

\* start() and stop() of the channel
YunhuStart ==
  /\ ~yunhuSend.running
  /\ yunhuSend' = [yunhuSend EXCEPT !.running = TRUE]
  /\ UNCHANGED <<running, now, jobsFile, allowFrom, inbound, outbound, turn, heap, cache,
                 disk, msgCtx, spawnCtx, subagents, job, store, dispatch, hist>>

YunhuStop ==
  /\ yunhuSend.running
  /\ yunhuSend' = [yunhuSend EXCEPT !.running = FALSE]
  /\ UNCHANGED <<running, now, jobsFile, allowFrom, inbound, outbound, turn, heap, cache,
                 disk, msgCtx, spawnCtx, subagents, job, store, dispatch, hist>>

\* send(msg) is called: it returns at once when the channel is not running,
\* and makes its first attempt otherwise
YunhuSendCall(msg) ==
  /\ yunhuSend.pc = "idle"
  /\ hist.events < MaxEvents
  /\ yunhuSend' =
       IF ~yunhuSend.running
       THEN [SendIdle EXCEPT !.running = FALSE, !.msg = Some(msg),
                             !.outcome = "returned"]
       ELSE [SendIdle EXCEPT !.pc = "attempt", !.msg = Some(msg),
                             !.started = TRUE, !.attempt = 1,
                             !.requests = <<sendMessageInternal(msg)>>]
  /\ hist' = [hist EXCEPT !.events = @ + 1]
  /\ UNCHANGED <<running, now, jobsFile, allowFrom, inbound, outbound, turn, heap, cache,
                 disk, msgCtx, spawnCtx, subagents, job, store, dispatch>>

\* sendMessageInternal resolves: send returns
YunhuSendResolves ==
  /\ yunhuSend.pc = "attempt"
  /\ yunhuSend' = [yunhuSend EXCEPT !.pc = "idle", !.outcome = "returned"]
  /\ UNCHANGED <<running, now, jobsFile, allowFrom, inbound, outbound, turn, heap, cache,
                 disk, msgCtx, spawnCtx, subagents, job, store, dispatch, hist>>

\* sendMessageInternal rejects: the last attempt throws the error, an
\* earlier one waits
YunhuSendRejects(error) ==
  /\ yunhuSend.pc = "attempt"
  /\ yunhuSend' =
       IF yunhuSend.attempt = MAX_RETRIES
       THEN [yunhuSend EXCEPT !.pc = "idle", !.errors = Append(@, error),
                              !.outcome = "threw", !.thrown = Some(error)]
       ELSE [yunhuSend EXCEPT !.pc = "wait", !.errors = Append(@, error),
                              !.waits = Append(@, delay(yunhuSend.attempt))]
  /\ UNCHANGED <<running, now, jobsFile, allowFrom, inbound, outbound, turn, heap, cache,
                 disk, msgCtx, spawnCtx, subagents, job, store, dispatch, hist>>

\* the timer of the backoff fires: the next attempt is made
YunhuDelayElapses ==
  /\ yunhuSend.pc = "wait"
  /\ yunhuSend' = [yunhuSend EXCEPT
                     !.pc = "attempt", !.attempt = @ + 1,
                     !.requests = Append(@, sendMessageInternal(yunhuSend.msg[1]))]
  /\ UNCHANGED <<running, now, jobsFile, allowFrom, inbound, outbound, turn, heap, cache,
                 disk, msgCtx, spawnCtx, subagents, job, store, dispatch, hist>>

----------------------------------------------------------------------------
(* Calls on the session store: the exported functions and the public methods
   of SessionManager, called by any client that holds the manager and the
   sessions it has been given *)

MaxStoreOps == 5

\* nothing has happened yet
NoHistory ==
  [events |-> 0, consumed |-> 0, replied |-> 0, loopPub |-> 0, toolPub |-> 0,
   op |-> None, got |-> << >>, event |-> None, sinceStop |-> 0,
   sentSinceStop |-> 0, before |-> << >>, sendThrew |-> 0]

StoreKeys == {TELEGRAM \o COLON \o <<"42">>, CLI \o COLON \o DIRECT}

\* a call as history keeps it: cached says whether getOrCreate found the key
\* in the cache, threw whether the call threw
StoreOp(name, key, ref, cached, threw) ==
  Some([name |-> name, key |-> key, ref |-> ref, cached |-> cached,
        threw |-> threw])

CanCall == hist.events < MaxStoreOps

\* history after a call: got keeps, for each key, the session the last
\* getOrCreate returned since the key was last deleted
GotAfter(op) ==
  IF op[1].name = "getOrCreate" THEN (op[1].key :> op[1].ref) @@ hist.got
  ELSE IF op[1].name = "delete"
  THEN [k \in DOMAIN hist.got \ {op[1].key} |-> hist.got[k]]
  ELSE IF op[1].name \in {"restart", "crash"} THEN << >>
  ELSE hist.got

Called(op) ==
  hist' = [hist EXCEPT !.events = @ + 1, !.op = op, !.got = GotAfter(op)]

\* sessions.getOrCreate(key)
GetOrCreateCall(key) ==
  LET got == getOrCreate(key, heap, cache, disk)
  IN /\ CanCall
     /\ heap' = got.heap
     /\ cache' = got.cache
     /\ Called(StoreOp("getOrCreate", key, got.ref, key \in DOMAIN cache, FALSE))
     /\ UNCHANGED <<running, now, jobsFile, allowFrom, yunhuSend, inbound, outbound, turn, disk, msgCtx, spawnCtx,
                    subagents, job, store, dispatch>>

\* an addMessage that puts the new entry first
AddMessageCallNewestFirst(ref) ==
  /\ CanCall
  /\ ref \in 1..Len(heap)
  /\ heap' = [heap EXCEPT ![ref] =
               [@ EXCEPT !.messages = <<SessionMessage("user", <<"hi">>)>> \o @,
                         !.updatedAt = newDateNow]]
  /\ Called(StoreOp("addMessage", heap[ref].key, ref, FALSE, FALSE))
  /\ UNCHANGED <<running, now, jobsFile, allowFrom, yunhuSend, inbound, outbound, turn, cache, disk, msgCtx, spawnCtx,
                 subagents, job, store, dispatch>>

\* addMessage(session, "user", "hi")
AddMessageCall(ref) ==
  /\ CanCall
  /\ ref \in 1..Len(heap)
  /\ heap' = [heap EXCEPT ![ref] =
               [@ EXCEPT !.messages = addMessage(@, "user", <<"hi">>),
                         !.updatedAt = newDateNow]]
  /\ Called(StoreOp("addMessage", heap[ref].key, ref, FALSE, FALSE))
  /\ UNCHANGED <<running, now, jobsFile, allowFrom, yunhuSend, inbound, outbound, turn, cache, disk, msgCtx, spawnCtx,
                 subagents, job, store, dispatch>>

\* clearSession(session)
ClearSessionCall(ref) ==
  /\ CanCall
  /\ ref \in 1..Len(heap)
  /\ heap' = [heap EXCEPT ![ref] =
               [@ EXCEPT !.messages = << >>, !.updatedAt = newDateNow]]
  /\ Called(StoreOp("clearSession", heap[ref].key, ref, FALSE, FALSE))
  /\ UNCHANGED <<running, now, jobsFile, allowFrom, yunhuSend, inbound, outbound, turn, cache, disk, msgCtx, spawnCtx,
                 subagents, job, store, dispatch>>

\* sessions.save(session)
SaveCall(ref) ==
  /\ CanCall
  /\ ref \in 1..Len(heap)
  /\ \E written \in SaveOutcomes(heap[ref], hist) :
       /\ disk' = IF written
                  THEN (getSessionPath(heap[ref].key) :>
                          WrittenFile(FileOf(heap[ref]))) @@ disk
                  ELSE disk
       /\ cache' = IF written THEN (heap[ref].key :> ref) @@ cache ELSE cache
       /\ Called(StoreOp("save", heap[ref].key, ref, FALSE, ~written))
  /\ UNCHANGED <<running, now, jobsFile, allowFrom, yunhuSend, inbound, outbound, turn, heap, msgCtx, spawnCtx,
                 subagents, job, store, dispatch>>

\* what writeFileSync can leave behind when the process dies inside it: the
\* file as it was (not yet opened), the file emptied by the open, some of
\* the lines, the last of them whole or cut short, or all of them
TornLine == [text |-> <<"{\"ro">>]

InterruptedWrites(old, lines) ==
  {old, WrittenFile(lines)}
  \cup {WrittenFile(SubSeq(lines, 1, k)) : k \in 0..(Len(lines) - 1)}
  \cup {WrittenFile(Append(SubSeq(lines, 1, k), TornLine)) :
          k \in 0..(Len(lines) - 1)}

\* the process dies inside sessions.save(session), and is started again
SaveCrash(ref) ==
  /\ CanCall
  /\ ref \in 1..Len(heap)
  /\ ~SaveThrows(heap[ref])
  /\ LET path == getSessionPath(heap[ref].key)
     IN \E file \in InterruptedWrites(None, FileOf(heap[ref])) :
          disk' = IF file = None THEN disk ELSE (path :> file) @@ disk
  /\ heap' = << >>
  /\ cache' = << >>
  /\ Called(StoreOp("crash", heap[ref].key, ref, FALSE, TRUE))
  /\ UNCHANGED <<running, now, jobsFile, allowFrom, yunhuSend, inbound, outbound, turn, msgCtx,
                 spawnCtx, subagents, job, store, dispatch>>

\* the limits a caller passes to getHistory; none is the default
MaxHistory == 3
HistoryLimits == 0..MaxHistory \cup {DefaultMaxMessages}

\* getHistory(session, maxMessages)
GetHistoryCall(ref, maxMessages) ==
  /\ CanCall
  /\ ref \in 1..Len(heap)
  /\ Called(Some([name |-> "getHistory", ref |-> ref, maxMessages |-> maxMessages,
                  returned |-> getHistory(heap[ref].messages, maxMessages)]))
  /\ UNCHANGED <<running, now, jobsFile, allowFrom, yunhuSend, inbound, outbound, turn, heap, cache,
                 disk, msgCtx, spawnCtx, subagents, job, store, dispatch>>

\* sessions.delete(key)
DeleteCall(key) ==
  /\ CanCall
  /\ cache' = [k \in DOMAIN cache \ {key} |-> cache[k]]
  /\ disk' = [q \in DOMAIN disk \ {getSessionPath(key)} |-> disk[q]]
  /\ Called(StoreOp("delete", key, 0, FALSE, FALSE))
  /\ UNCHANGED <<running, now, jobsFile, allowFrom, yunhuSend, inbound, outbound, turn, heap, msgCtx, spawnCtx,
                 subagents, job, store, dispatch>>

\* the process exits and is started again: the session files stay
Restart ==
  /\ CanCall
  /\ heap # << >>
  /\ heap' = << >>
  /\ cache' = << >>
  /\ Called(StoreOp("restart", << >>, 0, FALSE, FALSE))
  /\ UNCHANGED <<running, now, jobsFile, allowFrom, yunhuSend, inbound, outbound, turn, disk, msgCtx, spawnCtx,
                 subagents, job, store, dispatch>>

\* time passes
ClockTick ==
  /\ CanCall
  /\ now' = now + 1
  /\ Called(StoreOp("tick", << >>, 0, FALSE, FALSE))
  /\ UNCHANGED <<running, jobsFile, allowFrom, yunhuSend, inbound, outbound, turn, heap, cache, disk, msgCtx,
                 spawnCtx, subagents, job, store, dispatch>>

----------------------------------------------------------------------------
(* The system *)

\* a session file left by an earlier run of the process
EarlierSession ==
  [key |-> TELEGRAM \o COLON \o <<"42">>,
   messages |-> <<[role |-> "user", content |-> <<"old">>,
                   timestamp |-> toISOString([time |-> 0])],
                  [role |-> "assistant", content |-> <<"older">>,
                   timestamp |-> toISOString([time |-> 0])]>>,
   createdAt |-> [time |-> 0],
   updatedAt |-> [time |-> 0],
   metadata |-> EmptyMetadata]

InitialDisk ==
  getSessionPath(EarlierSession.key) :> WrittenFile(FileOf(EarlierSession))

\* the job list as loaded at startup: every job enabled, none run yet
InitialStore ==
  [id \in {j.id : j \in Jobs} |->
     [enabled |-> TRUE, nextRunAtMs |-> 0, runs |-> 0]]

Init ==
  /\ inbound = << >>
  /\ outbound = << >>
  /\ turn = [l \in Lanes |-> IdleTurn]
  /\ heap = << >>
  /\ cache = << >>
  /\ disk = InitialDisk
  /\ msgCtx = MessageTool(PUBLISH_OUTBOUND)
  /\ spawnCtx = [channel |-> << >>, chatId |-> << >>]
  /\ subagents = << >>
  /\ job = None
  /\ store = InitialStore
  /\ jobsFile = saveStore(InitialStore)
  /\ running = Started
  /\ allowFrom = AllowAll
  /\ yunhuSend = SendIdle
  /\ dispatch = DispatchIdle
  /\ now = 0
  /\ hist = NoHistory

Next ==
  \/ \E m \in ChannelMessages : ChannelReceive(m)
  \/ \E i \in 1..Len(subagents) : SubagentDone(i)
  \/ RunConsume
  \/ RunPublish
  \/ \E j \in RecurringJobs : JobFire(j)
  \/ JobDone
  \/ JobThrew
  \/ \E l \in Lanes : BuildDone(l)
  \/ \E l \in Lanes : BuildThrows(l)
  \/ \E l \in Lanes, g \in GenerateResults : ChatReturn(l, g)
  \/ \E l \in Lanes : ToolReturn(l)

Spec == Init /\ [][Next]_vars

\* The gateway some time after start: the turn of an earlier message from
\* telegram chat 42 has spawned a subagent, replied and saved; the session is
\* cached, the tools' context is that turn's, the subagent is still running.
\* hist counts that message, its turn and its reply.
RunningSubagent == [channel |-> TELEGRAM, chatId |-> <<"42">>]

InitAnnounce ==
  /\ inbound = << >>
  /\ outbound = <<createOutboundMessage(TELEGRAM, <<"42">>, <<"older">>, TelegramMetadata)>>
  /\ turn = [l \in Lanes |-> IdleTurn]
  /\ heap = <<EarlierSession>>
  /\ cache = EarlierSession.key :> 1
  /\ disk = InitialDisk
  /\ msgCtx = [MessageTool(PUBLISH_OUTBOUND) EXCEPT
                 !.channel = TELEGRAM, !.chatId = <<"42">>, !.metadata = TelegramMetadata]
  /\ spawnCtx = RunningSubagent
  /\ subagents = <<RunningSubagent>>
  /\ job = None
  /\ store = InitialStore
  /\ jobsFile = saveStore(InitialStore)
  /\ running = Started
  /\ allowFrom = AllowAll
  /\ yunhuSend = SendIdle
  /\ dispatch = DispatchIdle
  /\ now = 0
  /\ hist = [NoHistory EXCEPT !.events = 1, !.consumed = 1, !.replied = 1,
                               !.loopPub = 1]

SpecAnnounce == InitAnnounce /\ [][Next]_vars

\* The gateway with the channel manager's dispatcher running and an empty
\* job list: the channels, the run loop and the dispatcher
NextDispatch ==
  \/ \E m \in ChannelMessages : ChannelReceive(m)
  \/ \E i \in 1..Len(subagents) : SubagentDone(i)
  \/ RunConsume
  \/ RunPublish
  \/ BuildDone("bus")
  \/ BuildThrows("bus")
  \/ \E g \in GenerateResults : ChatReturn("bus", g)
  \/ ToolReturn("bus")
  \/ DispatchConsume
  \/ DispatchSent

SpecDispatch == Init /\ [][NextDispatch]_vars

\* The gateway with one chat writing to it when it is told to stop: the
\* shutdown handler can run at any point; every consume returns within its timeout, and every await of
\* the run loop and of the dispatcher settles
NextStop ==
  \/ \E m \in {c \in ChannelMessages : c.channel = TELEGRAM} : ChannelReceive(m)
  \/ RunConsume
  \/ RunPublish
  \/ BuildDone("bus")
  \/ BuildThrows("bus")
  \/ \E g \in GenerateResults : ChatReturn("bus", g)
  \/ ToolReturn("bus")
  \/ DispatchConsume
  \/ DispatchSent
  \/ Shutdown
  \/ RunTimeout
  \/ DispatchTimeout

\* a turn of the run loop goes on: every await in it settles
TurnStep ==
  \/ RunPublish
  \/ BuildDone("bus")
  \/ BuildThrows("bus")
  \/ \E g \in GenerateResults : ChatReturn("bus", g)
  \/ ToolReturn("bus")

\* consumeInboundWithTimeout settles: with the oldest message as soon as
\* there is one (RunConsume is enabled when CanConsume holds and the queue is
\* not empty), with nothing once the timeout has passed
ConsumeSettles ==
  /\ []<>(~(CanConsume /\ inbound # << >>)) \/ []<><<RunConsume>>_vars
  /\ WF_vars(RunTimeout)

DispatchLoop == DispatchConsume \/ DispatchTimeout \/ DispatchSent

SpecStop ==
  /\ Init
  /\ [][NextStop]_vars
  /\ ConsumeSettles
  /\ WF_vars(TurnStep)
  /\ WF_vars(DispatchLoop)

\* The gateway with the dispatcher running, the whole job list and no
\* message coming in from a channel: the scheduler's ticks, the turns they
\* start, the announces of the subagents those turns spawn, the dispatcher
NextScheduler ==
  \/ \E j \in Jobs : JobFire(j)
  \/ JobDone
  \/ JobThrew
  \/ \E i \in 1..Len(subagents) : SubagentDone(i)
  \/ RunConsume
  \/ RunPublish
  \/ \E l \in Lanes : BuildDone(l)
  \/ \E l \in Lanes : BuildThrows(l)
  \/ \E l \in Lanes, g \in GenerateResults : ChatReturn(l, g)
  \/ \E l \in Lanes : ToolReturn(l)
  \/ DispatchConsume
  \/ DispatchSent

SpecScheduler == Init /\ [][NextScheduler]_vars

\* The scheduler's tick loop over the whole job list while time passes, and
\* the turns it starts
NextTick ==
  \/ \E j \in Jobs : JobFire(j)
  \/ JobDone
  \/ JobThrew
  \/ TimePasses
  \/ BuildDone("sched")
  \/ BuildThrows("sched")
  \/ \E g \in GenerateResults : ChatReturn("sched", g)
  \/ ToolReturn("sched")

SpecTick == Init /\ [][NextTick]_vars

\* The same while `cron add` and `cron remove` are run from a shell: each
\* run makes a Scheduler of its own over the same jobs.json, which loads the
\* document, changes its list and rewrites the document
CliJobs ==
  { [id |-> <<"j9">>, schedule |-> "every", everyMs |-> 3, atMs |-> 0,
     payload |-> [message |-> <<"water">>, deliver |-> FALSE,
                  channel |-> None, to |-> None]] }

CronAdd(j) ==
  /\ j.id \notin DOMAIN jobsFile
  /\ jobsFile' = (j.id :> [enabled |-> TRUE,
                           nextRunAtMs |-> IF j.schedule = "every"
                                           THEN now + j.everyMs ELSE j.atMs])
                  @@ jobsFile
  /\ UNCHANGED <<running, now, allowFrom, yunhuSend, inbound, outbound, turn, heap, cache,
                 disk, msgCtx, spawnCtx, subagents, job, store, dispatch, hist>>

CronRemove(id) ==
  /\ id \in DOMAIN jobsFile
  /\ jobsFile' = [i \in DOMAIN jobsFile \ {id} |-> jobsFile[i]]
  /\ UNCHANGED <<running, now, allowFrom, yunhuSend, inbound, outbound, turn, heap, cache,
                 disk, msgCtx, spawnCtx, subagents, job, store, dispatch, hist>>

NextCron ==
  \/ \E j \in Jobs : JobFire(j)
  \/ JobDone
  \/ JobThrew
  \/ TimePasses
  \/ BuildDone("sched")
  \/ BuildThrows("sched")
  \/ \E g \in GenerateResults : ChatReturn("sched", g)
  \/ ToolReturn("sched")
  \/ \E j \in CliJobs : CronAdd(j)
  \/ \E j \in CliJobs : CronRemove(j.id)

SpecCron == Init /\ [][NextCron]_vars

\* The scheduler's tick loop and the dispatcher, with channels whose send()
\* can throw; the dispatcher polls the outbound queue once a second, and
\* every channel.send it awaits settles, one way or the other
NextSend ==
  \/ \E j \in RecurringJobs : JobFire(j)
  \/ JobDone
  \/ JobThrew
  \/ TimePasses
  \/ BuildDone("sched")
  \/ BuildThrows("sched")
  \/ \E g \in GenerateResults : ChatReturn("sched", g)
  \/ ToolReturn("sched")
  \/ DispatchConsume
  \/ DispatchSent
  \/ DispatchSendThrows

SpecSend ==
  /\ Init
  /\ [][NextSend]_vars
  /\ WF_vars(DispatchConsume)
  /\ WF_vars(DispatchSent)

\* The same, with the dispatcher's loop going on for ever: it polls the
\* outbound queue once a second, and every channel.send it awaits settles
SpecSchedulerFair ==
  /\ SpecScheduler
  /\ WF_vars(DispatchConsume)
  /\ WF_vars(DispatchSent)

\* The session files an earlier run can have left: the record of a session,
\* of one with metadata, and no record
StoredSession ==
  [EarlierSession EXCEPT !.metadata = [lang |-> "en"]]

StoredDisks ==
  { InitialDisk,
    getSessionPath(StoredSession.key) :> WrittenFile(FileOf(StoredSession)),
    << >> }

\* Records that are not what save() writes: one whose last line was cut
\* short, one the process may not read, and one whose metadata line is JSON
\* with a createdAt that is not a date
TruncatedLine == [text |-> <<"{\"role\":\"assis">>]

GarbageDate == [text |-> "garbage", time |-> 0]

TruncatedFile ==
  WrittenFile(<<MetadataLine(EarlierSession),
                stringify(EarlierSession.messages[1]), TruncatedLine>>)

UnreadableFile == [readable |-> FALSE, lines |-> FileOf(EarlierSession)]

BadDateFile ==
  WrittenFile(<<stringify([type |-> "metadata", createdAt |-> GarbageDate,
                           updatedAt |-> toISOString(EarlierSession.updatedAt),
                           metadata |-> EmptyMetadata])>>
              \o Tail(FileOf(EarlierSession)))

CorruptDisks ==
  { getSessionPath(EarlierSession.key) :> file :
      file \in {TruncatedFile, UnreadableFile, BadDateFile} }

InitStore ==
  /\ inbound = << >>
  /\ outbound = << >>
  /\ turn = [l \in Lanes |-> IdleTurn]
  /\ heap = << >>
  /\ cache = << >>
  /\ disk \in StoredDisks \cup CorruptDisks
  /\ msgCtx = MessageTool(PUBLISH_OUTBOUND)
  /\ spawnCtx = [channel |-> << >>, chatId |-> << >>]
  /\ subagents = << >>
  /\ job = None
  /\ store = InitialStore
  /\ jobsFile = saveStore(InitialStore)
  /\ running = Started
  /\ allowFrom = AllowAll
  /\ yunhuSend = SendIdle
  /\ dispatch = DispatchIdle
  /\ now = 1
  /\ hist = NoHistory

\* The gateway started on a session directory whose record of telegram:42
\* is not what save() writes: the channels, the run loop and the dispatcher
InitCorrupt ==
  /\ inbound = << >>
  /\ outbound = << >>
  /\ turn = [l \in Lanes |-> IdleTurn]
  /\ heap = << >>
  /\ cache = << >>
  /\ disk \in CorruptDisks
  /\ msgCtx = MessageTool(PUBLISH_OUTBOUND)
  /\ spawnCtx = [channel |-> << >>, chatId |-> << >>]
  /\ subagents = << >>
  /\ job = None
  /\ store = InitialStore
  /\ jobsFile = saveStore(InitialStore)
  /\ running = Started
  /\ allowFrom = AllowAll
  /\ yunhuSend = SendIdle
  /\ dispatch = DispatchIdle
  /\ now = 1
  /\ hist = NoHistory

SpecCorrupt == InitCorrupt /\ [][NextDispatch]_vars

\* The gateway with allow lists configured: what the platforms hand to the
\* adapters, from senders on the lists and from others, and the run loop
ChannelEvents ==
  ChannelMessages \cup
  { [channel |-> TELEGRAM, senderId |-> <<"7", "|", "bob">>,
     chatId |-> <<"42">>, content |-> <<"hi">>, metadata |-> TelegramMetadata],
    [channel |-> TELEGRAM, senderId |-> <<"8", "|", "eve">>,
     chatId |-> <<"43">>, content |-> <<"hi">>, metadata |-> TelegramMetadata],
    [channel |-> YUNHU, senderId |-> <<"u9">>, chatId |-> <<"room">>,
     content |-> <<"yo">>,
     metadata |-> YunhuMetadata(<<"u9">>, [chatId |-> <<"room">>,
                                           chatType |-> "group"])] }

AllowConfigs ==
  { AllowAll,
    (TELEGRAM :> {<<"bob">>}) @@ (YUNHU :> {}),
    (TELEGRAM :> {<<"7">>, <<"u1">>}) @@ (YUNHU :> {<<"u2">>}) }

InitChannels ==
  /\ inbound = << >>
  /\ outbound = << >>
  /\ turn = [l \in Lanes |-> IdleTurn]
  /\ heap = << >>
  /\ cache = << >>
  /\ disk = InitialDisk
  /\ msgCtx = MessageTool(PUBLISH_OUTBOUND)
  /\ spawnCtx = [channel |-> << >>, chatId |-> << >>]
  /\ subagents = << >>
  /\ job = None
  /\ store = InitialStore
  /\ jobsFile = saveStore(InitialStore)
  /\ running = Started
  /\ allowFrom \in AllowConfigs
  /\ yunhuSend = SendIdle
  /\ dispatch = DispatchIdle
  /\ now = 0
  /\ hist = NoHistory

NextChannels ==
  \/ \E m \in ChannelEvents : ChannelReceive(m)
  \/ \E i \in 1..Len(subagents) : SubagentDone(i)
  \/ RunConsume
  \/ RunPublish
  \/ BuildDone("bus")
  \/ BuildThrows("bus")
  \/ \E g \in GenerateResults : ChatReturn("bus", g)
  \/ ToolReturn("bus")

SpecChannels == InitChannels /\ [][NextChannels]_vars

\* The message tool under the calls of a client: the calls a model can make
ExecuteCalls ==
  { [id |-> "t1", name |-> "message", arguments |-> [content |-> <<"note">>]],
    [id |-> "t1", name |-> "message",
     arguments |-> [content |-> <<"note">>, channel |-> YUNHU]],
    [id |-> "t1", name |-> "message",
     arguments |-> [content |-> <<"note">>, chat_id |-> <<"room">>]],
    [id |-> "t1", name |-> "message",
     arguments |-> [content |-> <<"note">>, channel |-> YUNHU,
                    chat_id |-> <<"room">>]] }

ToolContexts ==
  { [channel |-> << >>, chatId |-> << >>, metadata |-> EmptyMetadata],
    [channel |-> TELEGRAM, chatId |-> << >>, metadata |-> TelegramMetadata],
    [channel |-> TELEGRAM, chatId |-> <<"42">>, metadata |-> TelegramMetadata] }

\* tool.setContext(channel, chatId, metadata)
SetContextCall(c) ==
  /\ CanCall
  /\ msgCtx' = setContext(msgCtx, c.channel, c.chatId, c.metadata)
  /\ Called(Some([name |-> "setContext"]))
  /\ UNCHANGED <<running, now, jobsFile, allowFrom, yunhuSend, inbound, outbound, turn, heap, cache, disk,
                 spawnCtx, subagents, job, store, dispatch>>

\* tool.setSendCallback(callback)
SetSendCallbackCall(callback) ==
  /\ CanCall
  /\ msgCtx' = setSendCallback(msgCtx, callback)
  /\ Called(Some([name |-> "setSendCallback"]))
  /\ UNCHANGED <<running, now, jobsFile, allowFrom, yunhuSend, inbound, outbound, turn, heap, cache, disk,
                 spawnCtx, subagents, job, store, dispatch>>

\* await tool.execute(params): the callback publishes, the string comes back
ExecuteCall(call) ==
  /\ CanCall
  /\ outbound' = outbound \o MessageToolSent(call, msgCtx)
  /\ Called(Some([name |-> "execute", call |-> call,
                  result |-> MessageToolResult(call, msgCtx)]))
  /\ UNCHANGED <<running, now, jobsFile, allowFrom, yunhuSend, inbound, turn, heap, cache, disk, msgCtx,
                 spawnCtx, subagents, job, store, dispatch>>

\* The session store under the calls of a client
NextStore ==
  \/ \E key \in StoreKeys : GetOrCreateCall(key)
  \/ \E ref \in 1..Len(heap) : AddMessageCall(ref)
  \/ \E ref \in 1..Len(heap) : ClearSessionCall(ref)
  \/ \E ref \in 1..Len(heap) : SaveCall(ref)
  \/ \E key \in StoreKeys : DeleteCall(key)
  \/ Restart
  \/ ClockTick

SpecStore == InitStore /\ [][NextStore]_vars

\* Sessions of every length up to the budget, read with every limit
NextHistory ==
  \/ \E key \in StoreKeys : GetOrCreateCall(key)
  \/ \E ref \in 1..Len(heap) : AddMessageCall(ref)
  \/ \E ref \in 1..Len(heap), n \in HistoryLimits : GetHistoryCall(ref, n)

SpecHistory == InitStore /\ [][NextHistory]_vars

\* keys that differ only in a character getSessionPath replaces
CollidingKeys ==
  {TELEGRAM \o COLON \o <<"42">>, TELEGRAM \o <<"_", "42">>,
   TELEGRAM \o <<"?", "42">>}

\* The session store called with such keys
NextCollide ==
  \/ \E key \in CollidingKeys : GetOrCreateCall(key)
  \/ \E ref \in 1..Len(heap) : AddMessageCall(ref)
  \/ \E ref \in 1..Len(heap) : SaveCall(ref)
  \/ \E key \in CollidingKeys : DeleteCall(key)

SpecCollide == InitStore /\ [][NextCollide]_vars

\* The gateway with the Yunhu channel: a group chat and a private chat (in a
\* private chat the chat id is the bot's id), and a job `cron add --deliver
\* --channel yunhu --to g7` has put in the job list
YunhuEvents ==
  { [channel |-> YUNHU, senderId |-> <<"u2">>, chatId |-> <<"g7">>,
     content |-> <<"yo">>,
     metadata |-> YunhuMetadata(<<"u2">>, [chatId |-> <<"g7">>,
                                           chatType |-> "group"])],
    [channel |-> YUNHU, senderId |-> <<"u3">>, chatId |-> <<"bot1">>,
     content |-> <<"psst">>,
     metadata |-> YunhuMetadata(<<"u3">>, [chatId |-> <<"bot1">>,
                                           chatType |-> "bot"])] }

YunhuJobs ==
  { [id |-> <<"j5">>, schedule |-> "at", everyMs |-> 0, atMs |-> 0,
     payload |-> [message |-> <<"report">>, deliver |-> TRUE,
                  channel |-> Some(YUNHU), to |-> Some(<<"g7">>)]] }

YunhuStore ==
  [id \in {j.id : j \in YunhuJobs} |->
     [enabled |-> TRUE, nextRunAtMs |-> 0, runs |-> 0]]

InitYunhu ==
  /\ inbound = << >>
  /\ outbound = << >>
  /\ turn = [l \in Lanes |-> IdleTurn]
  /\ heap = << >>
  /\ cache = << >>
  /\ disk = InitialDisk
  /\ msgCtx = MessageTool(PUBLISH_OUTBOUND)
  /\ spawnCtx = [channel |-> << >>, chatId |-> << >>]
  /\ subagents = << >>
  /\ job = None
  /\ store = YunhuStore
  /\ jobsFile = saveStore(YunhuStore)
  /\ running = Started
  /\ allowFrom = AllowAll
  /\ yunhuSend = SendIdle
  /\ dispatch = DispatchIdle
  /\ now = 0
  /\ hist = NoHistory

NextYunhu ==
  \/ \E m \in YunhuEvents : ChannelReceive(m)
  \/ \E i \in 1..Len(subagents) : SubagentDone(i)
  \/ RunConsume
  \/ RunPublish
  \/ \E j \in YunhuJobs : JobFire(j)
  \/ JobDone
  \/ JobThrew
  \/ \E l \in Lanes : BuildDone(l)
  \/ \E l \in Lanes : BuildThrows(l)
  \/ \E l \in Lanes, g \in GenerateResults : ChatReturn(l, g)
  \/ \E l \in Lanes : ToolReturn(l)
  \/ DispatchConsume
  \/ DispatchSent

SpecYunhu == InitYunhu /\ [][NextYunhu]_vars

\* The Yunhu channel, started or not, under calls of send
InitRetry ==
  /\ inbound = << >>
  /\ outbound = << >>
  /\ turn = [l \in Lanes |-> IdleTurn]
  /\ heap = << >>
  /\ cache = << >>
  /\ disk = InitialDisk
  /\ msgCtx = MessageTool(PUBLISH_OUTBOUND)
  /\ spawnCtx = [channel |-> << >>, chatId |-> << >>]
  /\ subagents = << >>
  /\ job = None
  /\ store = InitialStore
  /\ jobsFile = saveStore(InitialStore)
  /\ running = Started
  /\ allowFrom = AllowAll
  /\ yunhuSend \in {SendIdle, [SendIdle EXCEPT !.running = FALSE]}
  /\ dispatch = DispatchIdle
  /\ now = 0
  /\ hist = NoHistory

NextRetry ==
  \/ YunhuStart
  \/ YunhuStop
  \/ \E msg \in YunhuOutbound : YunhuSendCall(msg)
  \/ YunhuSendResolves
  \/ \E error \in SendErrors : YunhuSendRejects(error)
  \/ YunhuDelayElapses

SpecRetry == InitRetry /\ [][NextRetry]_vars

\* The same, with a process that can die while it saves
NextCrash ==
  \/ \E key \in StoreKeys : GetOrCreateCall(key)
  \/ \E ref \in 1..Len(heap) : AddMessageCall(ref)
  \/ \E ref \in 1..Len(heap) : SaveCall(ref)
  \/ \E ref \in 1..Len(heap) : SaveCrash(ref)

SpecCrash == InitStore /\ [][NextCrash]_vars

\* A message tool as its constructor leaves it, with any callback
InitMessageTool ==
  /\ inbound = << >>
  /\ outbound = << >>
  /\ turn = [l \in Lanes |-> IdleTurn]
  /\ heap = << >>
  /\ cache = << >>
  /\ disk = InitialDisk
  /\ msgCtx \in {MessageTool(callback) : callback \in SendCallbacks}
  /\ spawnCtx = [channel |-> << >>, chatId |-> << >>]
  /\ subagents = << >>
  /\ job = None
  /\ store = InitialStore
  /\ jobsFile = saveStore(InitialStore)
  /\ running = Started
  /\ allowFrom = AllowAll
  /\ yunhuSend = SendIdle
  /\ dispatch = DispatchIdle
  /\ now = 0
  /\ hist = NoHistory

NextMessageTool ==
  \/ \E c \in ToolContexts : SetContextCall(c)
  \/ \E callback \in SendCallbacks : SetSendCallbackCall(callback)
  \/ \E call \in ExecuteCalls : ExecuteCall(call)

SpecMessageTool == InitMessageTool /\ [][NextMessageTool]_vars

----------------------------------------------------------------------------
(* Reading a turn's message list *)

Active(t) == t.pc \in {"build", "chat", "tool"}

IsCallEntry(m) == m.role = "assistant" /\ "calls" \in DOMAIN m

IsToolEntry(m) == m.role = "tool"

\* the positions of the assistant entries that carry tool calls
CallEntries(t) == {p \in 1..Len(t.messages) : IsCallEntry(t.messages[p])}

\* how many tool entries follow position p without a gap
RECURSIVE ToolRun(_, _)
ToolRun(messages, p) ==
  IF p + 1 <= Len(messages) /\ IsToolEntry(messages[p + 1])
  THEN 1 + ToolRun(messages, p + 1)
  ELSE 0

IsSuffix(s, whole) ==
  Len(s) <= Len(whole) /\ SubSeq(whole, Len(whole) - Len(s) + 1, Len(whole)) = s

\* the messages of the durable record of a session key
Persisted(key) ==
  ParseLines(disk[getSessionPath(key)].lines, << >>, EmptyMetadata, None).messages

\* the step in which lane l's turn returns without throwing
Completes(l) == Active(turn[l]) /\ turn'[l].pc = "done"

----------------------------------------------------------------------------
(* C1: every turn that completes without throwing extends the session's
   message sequence by exactly two entries, the user entry carrying the
   inbound content and then the assistant entry carrying the turn's final
   answer, and the durable record then holds that whole sequence; so N
   turns on one key, one after the other, leave the earlier sequence
   followed by 2N entries in arrival order. *)
C1_TurnAppendsPair ==
  [][\A l \in Lanes :
       Completes(l) =>
         LET t == turn[l]
             before == heap[t.session].messages
             after == heap'[t.session].messages
             n == Len(before)
         IN /\ Len(after) = n + 2
            /\ SubSeq(after, 1, n) = before
            /\ after[n + 1].role = "user"
            /\ IsSuffix(t.msg.content, after[n + 1].content)
            /\ (~t.system => after[n + 1].content = t.msg.content)
            /\ after[n + 2].role = "assistant"
            /\ after[n + 2].content = turn'[l].result[1].content
            /\ getSessionPath(heap[t.session].key) \in DOMAIN disk'
            /\ ParseLines(disk'[getSessionPath(heap[t.session].key)].lines,
                          << >>, EmptyMetadata, None).messages = after]_vars

\* the second of two turns on telegram:42 has completed: the two entries of
\* the earlier run, then two pairs
C1_Witness ==
  /\ hist.consumed = 2
  /\ hist.events = 2
  /\ turn["bus"].pc = "done"
  /\ ~turn["bus"].system
  /\ Len(heap[turn["bus"].session].messages) = 6
  /\ Persisted(heap[turn["bus"].session].key) = heap[turn["bus"].session].messages

----------------------------------------------------------------------------
\* the model calls of the turn so far that came back with tool calls
ToolRounds(t) == Cardinality(CallEntries(t))

\* every model call of the returned turn came back with tool calls
OnlyToolRounds(t) == t.pc = "done" /\ ToolRounds(t) = t.iteration

(* C2: a turn makes at most MaxIterations model calls (iteration counts
   them); a turn all of whose calls came back with tool calls still returns,
   and what it returns is the fixed fallback string of its kind. *)
C2_IterationCap ==
  \A l \in Lanes :
    LET t == turn[l] IN
    /\ t.iteration <= MaxIterations
    /\ ToolRounds(t) <= t.iteration
    /\ t.pc = "chat" => t.iteration = ToolRounds(t) + 1
    /\ OnlyToolRounds(t) =>
         /\ t.iteration = MaxIterations
         /\ t.result[1].content =
              IF t.msg.channel = SYSTEM
              THEN <<"Background task completed.">>
              ELSE <<"I've completed processing but have no response to give.">>

\* a normal turn whose every model call asked for tools has returned
C2_NormalFallback ==
  \E l \in Lanes :
    /\ OnlyToolRounds(turn[l])
    /\ ToolRounds(turn[l]) = MaxIterations
    /\ turn[l].result[1].content = NormalFallback

\* the turn of a subagent's announce has made MaxIterations model calls, all
\* of which asked for tools, and has returned the system fallback
C2_Witness ==
  /\ turn["bus"].system
  /\ OnlyToolRounds(turn["bus"])
  /\ ToolRounds(turn["bus"]) = MaxIterations
  /\ turn["bus"].result[1].content = SystemFallback

----------------------------------------------------------------------------
\* the message-tool calls of the turn that have published
SentEntries(t) ==
  {p \in 1..Len(t.messages) :
     /\ IsToolEntry(t.messages[p])
     /\ t.messages[p].toolName = "message"
     /\ t.messages[p].result[1] = "Message sent to "}

PendingSent(t) ==
  IF t.pc = "tool" /\ t.calls[t.current].name = "message"
     /\ t.pending[1] = "Message sent to "
  THEN 1 ELSE 0

(* C3, as the claim states it: once the loop is back at the queue, exactly
   one message was published for the inbound message it consumed last. *)
C3_ExactlyOnePublished ==
  (turn["bus"].pc = "idle" /\ hist.consumed > 0) =>
    hist.loopPub + hist.toolPub = 1

(* C3, amended: the run loop itself publishes exactly one message per
   inbound message it consumed, the reply or the error reply, and publishes
   it after the turn; every message-tool call of the turn that has a target
   publishes one more while the turn runs. *)
C3_OneReplyByLoop ==
  /\ (turn["bus"].pc = "idle" /\ hist.consumed > 0) => hist.loopPub = 1
  /\ turn["bus"].pc # "idle" =>
       /\ hist.loopPub = 0
       /\ hist.toolPub = Cardinality(SentEntries(turn["bus"])) + PendingSent(turn["bus"])
  /\ Len(outbound) >= hist.replied + hist.toolPub

\* a bus turn whose model used the message tool has been replied to
C3_Witness ==
  /\ turn["bus"].pc = "idle"
  /\ hist.consumed = 1
  /\ hist.toolPub = 1
  /\ hist.loopPub = 1
  /\ Len(outbound) = 2

----------------------------------------------------------------------------
\* the step in which the run loop publishes the reply of a returned turn
PublishesReply == turn["bus"].pc = "done" /\ turn'["bus"].pc = "idle"

(* C4, as the claim states it: the reply published for a turn has the
   channel, the chat id and the metadata of the inbound message, also for a
   message on the system channel. *)
C4_ReplyToInbound ==
  [][PublishesReply =>
       LET m == turn["bus"].msg
           r == outbound'[Len(outbound')]
       IN /\ r.channel = m.channel
          /\ r.chatId = m.chatId
          /\ r.metadata = m.metadata]_vars

(* C4, amended: the reply to a message of a chat channel has that message's
   channel, chat id and metadata; the reply to a system-channel message is
   addressed to the origin processSystemMessage reads from the chat id (the
   text before the first ":" and the text up to the second, or cli and the
   whole chat id when it holds no ":") and has empty metadata. *)
C4_ReplyAddress ==
  [][PublishesReply =>
       LET m == turn["bus"].msg
           r == outbound'[Len(outbound')]
           origin == ParseOrigin(m.chatId)
       IN /\ outbound' = Append(outbound, r)
          /\ IF m.channel = SYSTEM
             THEN /\ r.channel = origin.channel
                  /\ r.chatId = origin.chatId
                  /\ r.metadata = EmptyMetadata
             ELSE /\ r.channel = m.channel
                  /\ r.chatId = m.chatId
                  /\ r.metadata = m.metadata]_vars

\* the reply to a subagent's announce is in the queue, addressed to telegram
C4_Witness ==
  /\ turn["bus"].pc = "idle"
  /\ hist.replied = 2
  /\ outbound # << >>
  /\ outbound[Len(outbound)].channel = TELEGRAM
  /\ outbound[Len(outbound)].metadata = EmptyMetadata
  /\ outbound[Len(outbound)].content = <<"answer">>
  /\ \E i \in 1..Len(heap) :
       /\ heap[i].messages # << >>
       /\ heap[i].messages[Len(heap[i].messages) - 1].content[1] = "[System: "

----------------------------------------------------------------------------
\* part occurs in whole
Contains(whole, part) ==
  \E i \in 0..(Len(whole) - Len(part)) : SubSeq(whole, i + 1, i + Len(part)) = part

\* the positions of the entries of tool calls that failed
FailedEntries(t) ==
  {q \in 1..Len(t.messages) :
     /\ IsToolEntry(t.messages[q])
     /\ t.messages[q].result # << >>
     /\ t.messages[q].result[1] = "Error: "}

(* C5, as the claim states it: the error text of every tool call that
   failed in a turn is in the transcript the turn persisted. *)
C5_ErrorTextPersisted ==
  \A l \in Lanes :
    turn[l].pc = "done" =>
      \A q \in FailedEntries(turn[l]) :
        \E i \in 1..Len(Persisted(heap[turn[l].session].key)) :
          Contains(Persisted(heap[turn[l].session].key)[i].content,
                   turn[l].messages[q].result)

(* C5, amended: a tool call that fails does not end the turn; its error
   text is the result of the tool entry pushed for that call on the turn's
   message list, which the next model call receives.  The transcript the
   turn persists holds user and assistant entries only: neither the tool
   call nor its error text is in it. *)
C5_ErrorTextInMessageList ==
  \A l \in Lanes :
    LET t == turn[l] IN
    /\ \A q \in 1..Len(t.messages) :
         (IsToolEntry(t.messages[q]) /\ t.messages[q].toolName = "read_file") =>
           /\ Len(t.messages[q].result) = 3
           /\ t.messages[q].result[1] = "Error: "
           /\ \E p \in CallEntries(t) :
                /\ p < q
                /\ q - p <= Len(t.messages[p].calls)
                /\ t.messages[p].calls[q - p].id = t.messages[q].toolCallId
                /\ t.messages[p].calls[q - p].arguments.path
                     = SubSeq(t.messages[q].result, 3, 3)
    /\ t.pc = "done" =>
         /\ t.result[1].content # << >>
         /\ \A i \in 1..Len(Persisted(heap[t.session].key)) :
              LET e == Persisted(heap[t.session].key)[i] IN
              /\ e.role \in {"user", "assistant"}
              /\ \A q \in FailedEntries(t) : ~Contains(e.content, t.messages[q].result)

\* a turn in which read_file failed has returned
C5_Witness ==
  \E l \in Lanes :
    /\ turn[l].pc = "done"
    /\ FailedEntries(turn[l]) # {}
    /\ \E q \in FailedEntries(turn[l]) : turn[l].messages[q].toolName = "read_file"

----------------------------------------------------------------------------
(* C6: a system-channel message whose chat id is originChannel ":"
   originChatId is processed against the session of that very key, and its
   reply is addressed to that origin. *)
C6_AnnounceUsesOrigin ==
  \A l \in Lanes :
    LET t == turn[l] IN
    (t.pc # "idle" /\ t.msg.channel = SYSTEM /\ Includes(t.msg.chatId, ":")) =>
      /\ heap[t.session].key = t.msg.chatId
      /\ t.originChannel \o COLON \o t.originChatId = t.msg.chatId
      /\ t.pc = "done" =>
           t.result[1].channel \o COLON \o t.result[1].chatId = t.msg.chatId

----------------------------------------------------------------------------
(* C7: a turn run through processDirect(content, sessionKey) works on the
   session whose key is the sessionKey argument. *)
C7_DirectUsesGivenKey ==
  (job # None /\ turn["sched"].pc # "idle") =>
    heap[turn["sched"].session].key = JobSessionKey(job[1])

----------------------------------------------------------------------------
(* C8: the run loop has at most one consumed inbound message whose reply it
   has not yet published, and it has one exactly while a turn of its own is
   in progress: it takes the next message from the queue only after the
   reply to the previous one is published. *)
C8_OneBusMessageAtATime ==
  /\ hist.consumed - hist.replied \in {0, 1}
  /\ turn["bus"].pc = "idle" <=> hist.consumed = hist.replied

\* a second message waits in the queue while the first is at a tool call
C8_Witness ==
  /\ turn["bus"].pc = "tool"
  /\ hist.consumed = 1
  /\ hist.replied = 0
  /\ Len(inbound) = 1

----------------------------------------------------------------------------
(* C9: at most one turn is between getOrCreate and save for one session
   key, over the run loop and the scheduler's direct calls. *)
C9_OneWriterPerKey ==
  ~ /\ Active(turn["bus"])
    /\ Active(turn["sched"])
    /\ heap[turn["bus"].session].key = heap[turn["sched"].session].key

----------------------------------------------------------------------------
(* C10: the tool calls of one model response run one at a time in the order
   the model gave them: behind every assistant entry that carries tool calls
   the message list holds the tool entries of those calls in that order;
   only the last response of a turn can be short of entries, and then the
   turn is at the first call that has none, with nothing else started; the
   next model call is made only when every call has its entry. *)
C10_ToolsInOrder ==
  \A l \in Lanes :
    LET t == turn[l] IN
    /\ \A p \in CallEntries(t) :
         LET calls == t.messages[p].calls
             n == ToolRun(t.messages, p)
         IN /\ n <= Len(calls)
            /\ \A j \in 1..n :
                 /\ t.messages[p + j].toolCallId = calls[j].id
                 /\ t.messages[p + j].toolName = calls[j].name
            /\ n < Len(calls) =>
                 /\ t.pc = "tool"
                 /\ p + n = Len(t.messages)
                 /\ t.calls = calls
                 /\ t.started = n + 1
                 /\ t.current = n + 1
    /\ t.pc = "tool" =>
         \E p \in CallEntries(t) :
           /\ ToolRun(t.messages, p) < Len(t.messages[p].calls)
           /\ p + ToolRun(t.messages, p) = Len(t.messages)

\* the second tool call of a response is running, the first has its entry
C10_Witness ==
  \E l \in Lanes :
    /\ turn[l].pc = "tool"
    /\ Len(turn[l].calls) = 2
    /\ turn[l].started = 2
    /\ IsToolEntry(turn[l].messages[Len(turn[l].messages)])

----------------------------------------------------------------------------
\* the text AIProvider.chat returns for a model call that threw
LLMErrorText == <<"Error calling LLM: ", "boom">>

Failing == {g \in GenerateResults : g.throws}

(* C11: a model call that fails does not make the turn throw.  In the step
   in which provider.chat comes back from a failed generateText the turn
   ends, at that iteration and without running a tool: it returns a reply
   whose content is the error text, the session has gained the user entry
   and an assistant entry carrying the error text, and the durable record
   holds them.  The turn throws in that step only when writeFileSync throws
   as well. *)
C11_ModelFailureBecomesReply ==
  [][\A l \in Lanes, g \in Failing :
       (turn[l].pc = "chat" /\ ChatReturn(l, g)) =>
         LET t == turn[l]
             after == heap'[t.session].messages
             n == Len(after)
         IN /\ turn'[l].iteration = t.iteration
            /\ turn'[l].messages = t.messages
            /\ outbound' = outbound
            /\ n >= 2
            /\ after[n - 1].role = "user"
            /\ IsSuffix(t.msg.content, after[n - 1].content)
            /\ after[n] = SessionMessage("assistant", LLMErrorText)
            /\ \/ /\ turn'[l].pc = "done"
                  /\ turn'[l].result[1].content = LLMErrorText
                  /\ turn'[l].result[1].channel = t.originChannel
                  /\ turn'[l].result[1].chatId = t.originChatId
                  /\ ParseLines(disk'[getSessionPath(heap[t.session].key)].lines,
                                << >>, EmptyMetadata, None).messages = after
               \/ /\ turn'[l].pc = "threw"
                  /\ disk' = disk
                  /\ hist'.events = hist.events + 2]_vars

\* a turn whose second model call failed, after a round of tools, has
\* returned the error text and the run loop has published it
C11_Witness ==
  /\ turn["bus"].pc = "idle"
  /\ hist.replied = 1
  /\ outbound # << >>
  /\ outbound[Len(outbound)].content = LLMErrorText
  /\ \E k \in DOMAIN cache :
       LET m == heap[cache[k]].messages IN
       /\ m # << >>
       /\ m[Len(m)].content = LLMErrorText
       /\ Persisted(k) = m
  /\ hist.events = 3
  /\ hist.toolPub = 1

----------------------------------------------------------------------------
\* q has grown by items put at its end
Appended(q, r) == Len(r) > Len(q) /\ SubSeq(r, 1, Len(q)) = q

\* q has lost its oldest item and nothing else
TookOldest(q, r) == q # << >> /\ r = Tail(q)

\* the inbound queue changes: a publisher appends, or the run loop, having
\* published the reply to whatever it consumed before, takes the oldest
InboundStep ==
  \/ Appended(inbound, inbound')
  \/ /\ TookOldest(inbound, inbound')
     /\ turn'["bus"].msg = Head(inbound)
     /\ hist.consumed = hist.replied
     /\ hist'.consumed = hist.consumed + 1

\* the run loop publishes: one message, at the end of the outbound queue,
\* addressed as the reply to the message consumed last
ReplyStep ==
  /\ hist'.replied = hist.consumed
  /\ Appended(outbound, outbound')
  /\ Len(outbound') = Len(outbound) + 1
  /\ LET r == outbound'[Len(outbound')]
         to == TurnTarget(turn["bus"].msg)
     IN \/ /\ turn["bus"].pc = "done"
           /\ r.channel = to.channel
           /\ r.chatId = to.chatId
        \/ /\ turn["bus"].pc = "threw"
           /\ r.channel = turn["bus"].msg.channel
           /\ r.chatId = turn["bus"].msg.chatId

\* the outbound queue changes: a publisher appends, or the dispatcher, with
\* no send pending, takes the oldest and hands it to its channel's send
OutboundStep ==
  \/ Appended(outbound, outbound')
  \/ /\ TookOldest(outbound, outbound')
     /\ dispatch.pc = "idle"
     /\ (Head(outbound).channel \in EnabledChannels =>
           dispatch' = [pc |-> "sending", adapter |-> Some(Head(outbound).channel),
                        msg |-> Some(Head(outbound))])

(* C12: both queues of the bus are first in, first out, and the two loops
   keep the order.  A step changes the inbound queue only by appending or by
   the run loop taking the oldest message, which it takes only when every
   message it consumed before has had its reply published; the reply it
   publishes goes to the end of the outbound queue and is the reply to the
   message it consumed last.  A step changes the outbound queue only by
   appending or by the dispatcher taking the oldest message, which it takes
   only when the send of the one before has settled, and hands to send. *)
C12_QueuesAreFifo ==
  [][/\ (inbound' # inbound => InboundStep)
     /\ (hist'.replied # hist.replied => ReplyStep)
     /\ (outbound' # outbound => OutboundStep)]_vars

\* three messages have come in: the reply to the first is being sent, the
\* reply to the second waits in the outbound queue, the third waits in the
\* inbound queue
C12_Witness ==
  /\ hist.consumed = 2
  /\ hist.replied = 2
  /\ hist.toolPub = 0
  /\ dispatch.pc = "sending"
  /\ Len(outbound) = 1
  /\ dispatch.msg[1].metadata # outbound[1].metadata
  /\ Len(inbound) = 1

----------------------------------------------------------------------------
\* the dispatcher takes the oldest message of the outbound queue
Dispatches == TookOldest(outbound, outbound')

(* C13 as stated: every message that leaves the outbound queue is handed to
   send() of the adapter registered under its channel; none is dropped. *)
C13_EveryMessageSent ==
  [][Dispatches =>
       dispatch' = [pc |-> "sending", adapter |-> Some(Head(outbound).channel),
                    msg |-> Some(Head(outbound))]]_vars

(* C13: while the dispatcher runs, every message published to the outbound
   queue leaves it, once and by the dispatcher alone, which takes the oldest
   when no send is pending.  A message whose channel has a registered
   adapter is handed to that adapter's send(); a message whose channel has
   none is discarded. *)
C13_SentOrDiscarded ==
  /\ [][outbound' # outbound =>
          \/ Appended(outbound, outbound')
          \/ /\ Dispatches
             /\ dispatch.pc = "idle"
             /\ dispatch' =
                  IF Head(outbound).channel \in EnabledChannels
                  THEN [pc |-> "sending", adapter |-> Some(Head(outbound).channel),
                        msg |-> Some(Head(outbound))]
                  ELSE DispatchIdle]_vars
  /\ []<>(outbound = << >> /\ dispatch.pc = "idle")

\* Job j1 has run once and nothing else has happened.  Its turn called the
\* message tool, which published to cli:direct, and then answered; onJob
\* published the delivery behind it.  The dispatcher has taken both: the
\* first, for which there is no adapter, is gone; the second is in send().
C13_Witness ==
  /\ dispatch = [pc |-> "sending", adapter |-> Some(TELEGRAM),
                 msg |-> Some(createOutboundMessage(TELEGRAM, <<"42">>,
                                                    <<"answer">>, EmptyMetadata))]
  /\ outbound = << >>
  /\ job = None
  /\ store[<<"j1">>].runs = 1
  /\ store[<<"j2">>].runs = 0
  /\ store[<<"j3">>].runs = 0
  /\ subagents = << >>
  /\ inbound = << >>
  /\ hist.consumed = 0
  /\ hist.events = 2

----------------------------------------------------------------------------
\* the message a step has put at the end of the outbound queue
Published == outbound'[Len(outbound')]

\* the run loop publishes what processMessage returned, or its error reply
RunLoopPublishes ==
  /\ turn'["bus"].pc = "idle"
  /\ hist'.replied = hist.replied + 1
  /\ \/ /\ turn["bus"].pc = "done"
        /\ Published = turn["bus"].result[1]
     \/ /\ turn["bus"].pc = "threw"
        /\ Published.channel = turn["bus"].msg.channel
        /\ Published.chatId = turn["bus"].msg.chatId
        /\ Published.content[1] = "Sorry, I encountered an error: "

\* the message tool, called by a turn's model response, publishes through
\* its send callback
ToolPublishes ==
  \E l \in Lanes :
    /\ turn'[l].pc = "tool"
    /\ turn'[l].started = turn[l].started + 1 \/ turn[l].pc = "chat"
    /\ turn'[l].calls[turn'[l].current].name = "message"
    /\ Published = createOutboundMessage(msgCtx.channel, msgCtx.chatId,
                      turn'[l].calls[turn'[l].current].arguments.content,
                      msgCtx.metadata)

\* the gateway's onJob publishes the text of a job's turn
JobPublishes ==
  /\ job # None
  /\ job' = None
  /\ turn["sched"].pc = "done"
  /\ job[1].payload.deliver
  /\ Published.content = turn["sched"].result[1].content

(* C14 as stated: whatever enters the outbound queue is the result of a turn
   published by the run loop, the value processMessage returned or the
   loop's error reply. *)
C14_OnlyTurnResults ==
  [][Appended(outbound, outbound') =>
       /\ Len(outbound') = Len(outbound) + 1
       /\ RunLoopPublishes]_vars

(* C14: whatever enters the outbound queue enters it one message at a time
   and comes from one of three publishers: the run loop, with the result of
   the turn it awaited or its error reply; the message tool, called during
   a turn; the gateway's onJob, delivering the text of a scheduled job's
   turn. *)
C14_ThreePublishers ==
  [][Appended(outbound, outbound') =>
       /\ Len(outbound') = Len(outbound) + 1
       /\ RunLoopPublishes \/ ToolPublishes \/ JobPublishes]_vars

\* the three have published: the message tool during the turn of a telegram
\* message, the run loop that turn's reply, onJob the delivery of job j1
C14_Witness ==
  /\ Len(outbound) = 3
  /\ hist.replied = 1
  /\ hist.toolPub = 1
  /\ store[<<"j1">>].runs = 1
  /\ job = None
  /\ \E p, q, r \in 1..3 :
       /\ outbound[p].content = <<"note">>
       /\ outbound[q].metadata = TelegramMetadata /\ outbound[q].content = <<"answer">>
       /\ outbound[r].metadata = EmptyMetadata /\ outbound[r].chatId = <<"42">>

----------------------------------------------------------------------------
(* Reading the history of the calls on the session store *)

\* the step is a call of the named function on the store
StoreStep(name) ==
  /\ hist'.events = hist.events + 1
  /\ hist'.op # None
  /\ hist'.op[1].name = name

SaveReturns == StoreStep("save") /\ ~hist'.op[1].threw

\* the call before this one was a getOrCreate that took the session from
\* the durable record, and the session is the one this call is made on
JustReloaded ==
  /\ hist.op # None
  /\ hist.op[1].name = "getOrCreate"
  /\ ~hist.op[1].cached
  /\ hist.op[1].ref = hist'.op[1].ref
  /\ load(hist.op[1].key, disk) # None

\* a save that returns wrote a record from which load() gives back the
\* session's messages, in order, and its metadata map
ReloadsTheSame ==
  SaveReturns =>
    LET session == heap[hist'.op[1].ref]
        loaded == load(session.key, disk')
    IN /\ loaded # None
       /\ loaded[1].messages = session.messages
       /\ loaded[1].metadata = session.metadata
       /\ loaded[1].createdAt = session.createdAt

----------------------------------------------------------------------------
(* C15: round trip: a save followed by a load of the same key into an empty
   cache gives a session with the same ordered message sequence and the
   same metadata map, and saving the reloaded session again writes the same
   record. *)
C15_RoundTrip ==
  [][/\ ReloadsTheSame
     /\ (SaveReturns /\ JustReloaded) => (disk' = disk)]_vars

\* what the code does instead: the record written again has the time of the
\* reload as its updatedAt, and is the same in everything else
SameButUpdatedAt(before, after) ==
  /\ after.readable = before.readable
  /\ Len(after.lines) = Len(before.lines)
  /\ \A i \in 1..Len(after.lines) :
        \/ after.lines[i] = before.lines[i]
        \/ /\ IsMetadataLine(JSONparse(before.lines[i]))
           /\ after.lines[i] =
                stringify([JSONparse(before.lines[i]) EXCEPT
                             !.updatedAt = JSONparse(after.lines[i]).updatedAt])

C15_RoundTripButUpdatedAt ==
  [][/\ ReloadsTheSame
     /\ (SaveReturns /\ JustReloaded) =>
          SameButUpdatedAt(disk[getSessionPath(hist.op[1].key)],
                           disk'[getSessionPath(hist.op[1].key)])]_vars

\* the record of the earlier run, written at time 0, has been loaded at
\* time 1 and saved again: its updatedAt is now 1
C15_Witness ==
  /\ hist.events = 2
  /\ hist.op = StoreOp("save", StoredSession.key, 1, FALSE, FALSE)
  /\ heap = <<[StoredSession EXCEPT !.updatedAt = [time |-> 1]]>>
  /\ disk = getSessionPath(StoredSession.key) :>
              WrittenFile(FileOf([StoredSession EXCEPT
                                    !.updatedAt = [time |-> 1]]))
  /\ disk # getSessionPath(StoredSession.key) :>
              WrittenFile(FileOf(StoredSession))

----------------------------------------------------------------------------
(* C16: getOrCreate(key) returns the cached session when the key is
   cached; otherwise the session reconstructed from the durable record of
   the key when there is one; otherwise a new session with no messages. The
   key is cached afterwards in every case, so two getOrCreate(key) calls
   with no delete in between return the same session object. *)

\* the record is one that load() reads to its end
Loadable(file) ==
  file.readable /\ ~ParseLines(file.lines, << >>, EmptyMetadata, None).throws

\* what one call returns, and that the key is cached afterwards
ReturnsCachedLoadedOrNew ==
  StoreStep("getOrCreate") =>
    LET key == hist'.op[1].key
        ref == hist'.op[1].ref
        path == getSessionPath(key)
    IN /\ key \in DOMAIN cache => (ref = cache[key] /\ heap' = heap)
       /\ (key \notin DOMAIN cache /\ path \in DOMAIN disk
             /\ Loadable(disk[path])) =>
            /\ ref = Len(heap) + 1
            /\ heap'[ref].key = key
            /\ [i \in 1..Len(heap'[ref].messages) |->
                  stringify(heap'[ref].messages[i])] = Tail(disk[path].lines)
            /\ heap'[ref].metadata = JSONparse(disk[path].lines[1]).metadata
       /\ (key \notin DOMAIN cache /\ path \notin DOMAIN disk) =>
            /\ ref = Len(heap) + 1
            /\ heap'[ref].key = key
            /\ heap'[ref].messages = << >>
       /\ key \in DOMAIN cache' /\ cache'[key] = ref

C16_GetOrCreate ==
  [][/\ ReturnsCachedLoadedOrNew
     /\ StoreStep("getOrCreate") =>
          LET key == hist'.op[1].key
          IN key \in DOMAIN hist.got => hist'.op[1].ref = hist.got[key]]_vars

\* one call after another, with nothing in between, returns the same object
C16_SameObjectTwice ==
  [][/\ ReturnsCachedLoadedOrNew
     /\ (StoreStep("getOrCreate") /\ hist.op # None
           /\ hist.op[1].name = "getOrCreate"
           /\ hist.op[1].key = hist'.op[1].key) =>
          hist'.op[1].ref = hist.op[1].ref]_vars

----------------------------------------------------------------------------
(* C17: when the durable record of a session key is corrupt or unreadable,
   getOrCreate(key) does not throw: it returns a fresh session, with no
   messages and empty metadata, and the turn that asked for it proceeds
   normally. *)

\* the metadata line carries dates as toISOString writes them
HasDates(data) ==
  /\ "createdAt" \in DOMAIN data /\ newDate(data.createdAt).time # NaN
  /\ "updatedAt" \in DOMAIN data /\ newDate(data.updatedAt).time # NaN

\* the file is a record as save() writes it: readable, every line JSON, a
\* metadata line with its dates first, then messages
IsRecord(file) ==
  /\ file.readable
  /\ file.lines # << >>
  /\ \A i \in 1..Len(file.lines) : ~ParseThrows(file.lines[i])
  /\ IsMetadataLine(JSONparse(file.lines[1]))
  /\ HasDates(JSONparse(file.lines[1]))
  /\ \A i \in 2..Len(file.lines) : ~IsMetadataLine(JSONparse(file.lines[i]))

\* the run loop starts a turn whose getOrCreate finds, for an uncached key,
\* a file that is not a record
LoadsCorrupt ==
  /\ turn["bus"].pc = "idle"
  /\ turn'["bus"].pc = "build"
  /\ LET key == heap'[turn'["bus"].session].key
     IN /\ key \notin DOMAIN cache
        /\ getSessionPath(key) \in DOMAIN disk
        /\ ~IsRecord(disk[getSessionPath(key)])

\* a turn throws in this step because save() cannot serialise its session
ThrowsOnSave(l) ==
  /\ turn[l].pc # "threw"
  /\ turn'[l].pc = "threw"
  /\ SaveThrows(heap'[turn[l].session])

C17_CorruptRecordIsAbsent ==
  [][/\ LoadsCorrupt =>
          /\ heap'[turn'["bus"].session].messages = << >>
          /\ heap'[turn'["bus"].session].metadata = EmptyMetadata
          /\ heap'[turn'["bus"].session].createdAt = newDateNow
     /\ ~ThrowsOnSave("bus")]_vars

----------------------------------------------------------------------------
(* C18: a session's message sequence is append-only: whatever is done to a
   session (addMessage, clearSession, save, getOrCreate, turns), the
   sequence it held before is a prefix of the sequence it holds after, and
   no entry changes place. *)

IsPrefix(s, whole) == Len(s) <= Len(whole) /\ SubSeq(whole, 1, Len(s)) = s

\* the session objects that live through the step
Surviving == 1..(IF Len(heap) <= Len(heap') THEN Len(heap) ELSE Len(heap'))

C18_AppendOnly ==
  [][\A ref \in Surviving :
       IsPrefix(heap[ref].messages, heap'[ref].messages)]_vars

\* what the code does instead: clearSession empties the sequence, and
\* every other operation leaves the old sequence as a prefix
C18_AppendOnlyButClear ==
  [][\A ref \in Surviving :
       \/ IsPrefix(heap[ref].messages, heap'[ref].messages)
       \/ /\ StoreStep("clearSession")
          /\ hist'.op[1].ref = ref
          /\ heap'[ref].messages = << >>]_vars

\* the session loaded from the record of the earlier run, one entry added,
\* then cleared: the object holds nothing, the record still the two entries
C18_Witness ==
  /\ hist.events = 3
  /\ hist.op = StoreOp("clearSession", EarlierSession.key, 1, FALSE, FALSE)
  /\ Len(heap) = 1
  /\ heap[1].messages = << >>
  /\ cache = EarlierSession.key :> 1
  /\ disk = InitialDisk

----------------------------------------------------------------------------
(* C19: for every firing of a scheduled job whose payload has deliver set,
   the text the job's turn returns is published as exactly one
   OutboundMessage addressed to the job's configured channel and recipient;
   when deliver is not set, nothing is published for that firing. *)

\* onJob's call of processDirect returns in this step
JobTurnReturns == job # None /\ job' = None /\ turn["sched"].pc = "done"

\* onJob's call of processDirect throws in this step
JobTurnThrows == job # None /\ job' = None /\ turn["sched"].pc = "threw"

\* the channel of a job's payload; onJob takes telegram when there is none
ChannelOf(j) ==
  IF j.payload.channel # None THEN j.payload.channel[1] ELSE TELEGRAM

\* the step appends one message to the outbound queue: this channel, this
\* recipient, the text the job's turn returned
PublishesOne(channel, to) ==
  /\ Len(outbound') = Len(outbound) + 1
  /\ SubSeq(outbound', 1, Len(outbound)) = outbound
  /\ outbound'[Len(outbound')].channel = channel
  /\ outbound'[Len(outbound')].chatId = to
  /\ outbound'[Len(outbound')].content = turn["sched"].result[1].content

C19_DeliverSetPublishesOne ==
  [][JobTurnReturns =>
       IF job[1].payload.deliver
       THEN /\ job[1].payload.to # None
            /\ PublishesOne(ChannelOf(job[1]), job[1].payload.to[1])
       ELSE outbound' = outbound]_vars

\* what the code does instead: onJob publishes when deliver is set and a
\* recipient is configured, to the configured channel or else to telegram;
\* with no recipient, with deliver not set, or when the turn throws, it
\* publishes nothing
C19_DeliverAndRecipient ==
  [][/\ JobTurnReturns =>
          IF job[1].payload.deliver /\ job[1].payload.to # None
          THEN PublishesOne(ChannelOf(job[1]), job[1].payload.to[1])
          ELSE outbound' = outbound
     /\ JobTurnThrows => outbound' = outbound]_vars

\* j1 (deliver, recipient 42, no channel) and j3 (deliver, channel yunhu, no
\* recipient) have both fired and their turns have answered: the queue
\* holds the one delivery of j1, addressed to telegram
C19_Witness ==
  /\ job = None
  /\ store[<<"j1">>].runs = 1
  /\ store[<<"j3">>].runs = 1
  /\ store[<<"j2">>].runs = 0
  /\ hist.events = 2
  /\ dispatch = DispatchIdle
  /\ outbound = <<createOutboundMessage(TELEGRAM, <<"42">>, <<"answer">>,
                                        EmptyMetadata)>>

----------------------------------------------------------------------------
(* C20: a job with an `at` schedule is fired by the tick loop exactly once:
   its first firing disables it, and no later tick fires it again, however
   many ticks follow. *)

\* the tick loop fires job j in this step
Fires(j) == store'[j.id].runs = store[j.id].runs + 1

C20_AtJobFiresOnce ==
  [][\A j \in Jobs :
       j.schedule = "at" =>
         /\ Fires(j) => (store[j.id].runs = 0 /\ ~store'[j.id].enabled)
         /\ ~store[j.id].enabled => store'[j.id] = store[j.id]]_vars

\* the `at` job j3 has fired once and is disabled; the ticks have gone on,
\* firing the recurring job j1 twice, and j3 has not fired again
C20_Witness ==
  /\ ~store[<<"j3">>].enabled
  /\ store[<<"j3">>].runs = 1
  /\ store[<<"j1">>].enabled
  /\ store[<<"j1">>].runs = 2
  /\ job = None

----------------------------------------------------------------------------
(* C21: for a job with an `every` schedule whose interval is positive, every
   firing sets nextRunAtMs to the firing time plus the interval; so from one
   firing to the next nextRunAtMs grows strictly, and it is never smaller
   than the time at which it was computed. *)
C21_NextRunAdvances ==
  [][\A j \in Jobs :
       (j.schedule = "every" /\ j.everyMs > 0) =>
         /\ Fires(j) =>
              /\ store'[j.id].nextRunAtMs = now + j.everyMs
              /\ store'[j.id].nextRunAtMs > store[j.id].nextRunAtMs
              /\ store'[j.id].nextRunAtMs >= now
         /\ ~Fires(j) => store'[j.id].nextRunAtMs = store[j.id].nextRunAtMs]_vars

\* j2, every 1 ms, has fired at time 0 and again, late, at time 2 (its
\* second run was due at 1): its next run is at 3, not at 2
C21_Witness ==
  /\ now = 2
  /\ store[<<"j2">>].runs = 2
  /\ store[<<"j2">>].nextRunAtMs = 3
  /\ store[<<"j1">>].runs = 1

----------------------------------------------------------------------------
(* C22: a scheduler tick fires only jobs that are enabled and whose
   nextRunAtMs is at most the current time, and for each job it fires the
   updated job list (the new nextRunAtMs, or the disabled flag of an `at`
   job) is persisted before the job's payload is invoked against the Turn
   Engine. *)

\* the persisted list holds job j as the list in memory has it
PersistedAsUpdated(id) ==
  /\ jobsFile'[id].enabled = store'[id].enabled
  /\ jobsFile'[id].nextRunAtMs = store'[id].nextRunAtMs

C22_DueThenPersistThenInvoke ==
  [][/\ \A j \in Jobs :
          Fires(j) =>
            /\ store[j.id].enabled
            /\ store[j.id].nextRunAtMs <= now
            /\ store'[j.id] # store[j.id]
     /\ \A l \in Lanes :
          (l = "sched" /\ turn'[l].pc # "idle") =>
            /\ job' # None
            /\ PersistedAsUpdated(job'[1].id)
            /\ store'[job'[1].id].runs > 0]_vars

\* the `at` job j3 has been fired at time 2, after j1 and j2 at time 0: its
\* turn is at the model call, and the persisted list has j3 disabled
C22_Witness ==
  /\ now = 2
  /\ job # None
  /\ job[1].id = <<"j3">>
  /\ turn["sched"].pc = "chat"
  /\ ~jobsFile[<<"j3">>].enabled
  /\ jobsFile[<<"j1">>].nextRunAtMs = 2
  /\ jobsFile[<<"j2">>].nextRunAtMs = 1

----------------------------------------------------------------------------
(* C23: when a channel's allow_from list is not empty, a message from a
   sender that is not on the list never reaches the inbound queue and never
   starts a turn; when the list is empty, messages from every sender are
   accepted. *)

\* the ids a sender id stands for: itself, and each field between "|"
IdsOf(senderId) ==
  {senderId} \cup
  { SubSeq(senderId, a, b) :
      <<a, b>> \in { ab \in (1..Len(senderId)) \X (1..Len(senderId)) :
                      /\ ab[1] <= ab[2]
                      /\ (ab[1] = 1 \/ senderId[ab[1] - 1] = "|")
                      /\ (ab[2] = Len(senderId) \/ senderId[ab[2] + 1] = "|")
                      /\ \A i \in ab[1]..ab[2] : senderId[i] # "|" } }

\* the channel of m lets the sender of m in
Admits(m) ==
  allowFrom[m.channel] = {} \/ IdsOf(m.senderId) \cap allowFrom[m.channel] # {}

\* a platform hands a message to its adapter in this step
Received ==
  /\ hist'.events = hist.events + 1
  /\ turn' = turn
  /\ store' = store
  /\ hist'.event # None

\* the messages in the queue and in the run loop's turn that came in
\* through a channel
FromChannels ==
  {inbound[i] : i \in {k \in 1..Len(inbound) : inbound[k].channel # SYSTEM}}
  \cup {turn[l].msg : l \in {k \in {"bus"} : turn[k].pc # "idle"
                                             /\ turn[k].msg.channel # SYSTEM}}

C23_AllowList ==
  /\ [][Received =>
          IF Admits(hist'.event[1])
          THEN inbound' = Append(inbound, hist'.event[1])
          ELSE inbound' = inbound]_vars
  /\ [](\A m \in FromChannels : Admits(m))

\* telegram allows only bob: the message of 7|bob has been consumed and its
\* turn is running, and the message of 8|eve, the last to arrive, is
\* nowhere
C23_Witness ==
  /\ allowFrom[TELEGRAM] = {<<"bob">>}
  /\ hist.event # None
  /\ hist.event[1].senderId = <<"8", "|", "eve">>
  /\ hist.events = 2
  /\ inbound = << >>
  /\ turn["bus"].pc = "chat"
  /\ turn["bus"].msg.senderId = <<"7", "|", "bob">>


\* a step in which execute was called; its call and the string it returned
Executes == StoreStep("execute")

StartsWith(whole, part) ==
  Len(whole) >= Len(part) /\ SubSeq(whole, 1, Len(part)) = part

\* the call has no target: neither an argument nor a default in the tool's
\* context, for the channel or for the chat id
Untargeted(call) ==
  \/ Param(call, "channel") = << >> /\ msgCtx.channel = << >>
  \/ Param(call, "chat_id") = << >> /\ msgCtx.chatId = << >>

\* C24: a message-tool call with no target, or made with no send callback
\* configured, returns a string that begins with "Error:" and publishes
\* nothing; a call whose send callback throws returns an error string too;
\* in each case execute returns (the turn that made the call goes on), and a
\* call with a target and a working callback publishes one message to it
C24_MessageToolErrors ==
  [][Executes =>
       LET call == hist'.op[1].call
           result == hist'.op[1].result
       IN /\ (Untargeted(call) \/ msgCtx.sendCallback = NO_CALLBACK) =>
               /\ StartsWith(result, <<"Error: ">>)
               /\ outbound' = outbound
          /\ (~Untargeted(call) /\ msgCtx.sendCallback = THROWING_CALLBACK) =>
               /\ StartsWith(result, <<"Error sending message: ">>)
               /\ outbound' = outbound
          /\ (~Untargeted(call) /\ msgCtx.sendCallback = PUBLISH_OUTBOUND) =>
               /\ StartsWith(result, <<"Message sent to ">>)
               /\ Len(outbound') = Len(outbound) + 1]_vars

\* each of the three failures has happened: no target with a callback set,
\* a target with no callback, a target with a callback that threw
C24_Witness ==
  /\ hist.op # None
  /\ hist.op[1].name = "execute"
  /\ hist.op[1].result = <<"Error sending message: ", "boom">>
  /\ hist.events >= 3
  /\ outbound # << >>


\* C25: once stop() has been called the run loop returns, given that every
\* consume comes back within its timeout and the turn in progress ends; it
\* starts at most one turn after the stop and none once it has returned; the
\* dispatcher does the same after stopAll(), with at most one more message
\* taken from the outbound queue
C25_StopTerminates ==
  /\ [](hist.sinceStop <= 1 /\ hist.sentSinceStop <= 1)
  /\ [][((running.agent = EXITED) =>
            (running'.agent = EXITED /\ hist'.consumed = hist.consumed))
        /\ ((running.dispatcher = EXITED) =>
              (running'.dispatcher = EXITED /\ dispatch' = dispatch))]_vars
  /\ (running.agent = STOPPING ~> running.agent = EXITED)
  /\ (running.dispatcher = STOPPING ~> running.dispatcher = EXITED)

\* both loops have returned, each after one more message taken after the stop
C25_Witness ==
  /\ running.agent = EXITED
  /\ running.dispatcher = EXITED
  /\ hist.sinceStop = 1
  /\ hist.sentSinceStop = 1


\* the durable record of a key: the file of its path, if there is one
RecordOf(key, d) ==
  IF getSessionPath(key) \in DOMAIN d THEN Some(d[getSessionPath(key)]) ELSE None

\* C26: save(session) replaces the durable record atomically: after a save
\* that returns, a save that throws, or a process that dies inside save, the
\* record is the complete previous record or the complete new one
C26_SaveIsAtomic ==
  [][(StoreStep("save") \/ StoreStep("crash")) =>
       LET key == hist'.op[1].key
           session == heap[hist'.op[1].ref]
       IN RecordOf(key, disk') \in
            {RecordOf(key, disk), Some(WrittenFile(FileOf(session)))}]_vars


\* the last min(n, length) entries in their order, as role and content
LastOf(messages, n) ==
  LET k == IF n < Len(messages) THEN n ELSE Len(messages)
  IN [i \in 1..k |-> [role |-> messages[Len(messages) - k + i].role,
                      content |-> messages[Len(messages) - k + i].content]]

\* C27: getHistory(session, n) returns the last min(n, length) messages of
\* the session in their order, reduced to role and content, never more than
\* n of them, and leaves the session as it was, for every n >= 0
C27_GetHistory ==
  [][StoreStep("getHistory") =>
       LET op == hist'.op[1]
       IN /\ op.returned = LastOf(heap[op.ref].messages, op.maxMessages)
          /\ Len(op.returned) <= op.maxMessages
          /\ heap' = heap]_vars


\* the run loop's catch block has run for the turn of the bus lane
CatchesThrow == turn["bus"].pc = "threw" /\ turn'["bus"].pc = "idle"

\* the loop publishes one message, to the chat the inbound message came from
RepliesOnceTo(msg) ==
  /\ Len(outbound') = Len(outbound) + 1
  /\ SubSeq(outbound', 1, Len(outbound)) = outbound
  /\ outbound'[Len(outbound')].channel = msg.channel
  /\ outbound'[Len(outbound')].chatId = msg.chatId
  /\ outbound'[Len(outbound')].metadata = msg.metadata
  /\ StartsWith(outbound'[Len(outbound')].content,
                <<"Sorry, I encountered an error: ">>)

\* the loop is back at its consume, and has not returned
ConsumesNext ==
  turn'["bus"].pc = "idle" /\ running'.agent = running.agent /\ running.agent # EXITED

\* C28: when processMessage throws for a message the run loop consumed, the
\* loop publishes exactly one error reply to the message's channel and chat
\* with its metadata and goes back to consuming, and the message sequence of
\* the turn's session is what it was before the turn
C28_ThrowLeavesSession ==
  [][CatchesThrow =>
       /\ RepliesOnceTo(turn["bus"].msg)
       /\ ConsumesNext
       /\ heap'[turn["bus"].session].messages = hist.before]_vars

\* the same without the session: the reply and the loop
C28_ThrowIsReplied ==
  [][CatchesThrow => RepliesOnceTo(turn["bus"].msg) /\ ConsumesNext]_vars


\* C29: the dispatcher has at most one channel.send in flight (a send it
\* awaits is not replaced by another before it settles), and neither a send
\* that throws nor a message for an unknown channel stops it: its loop has
\* not returned, after either it is back at its consume, each message it
\* takes from the queue is handed to the adapter of its channel if there is
\* one, and every message enqueued leaves the queue
C29_DispatcherGoesOn ==
  /\ [][dispatch.pc = "sending" =>
          (dispatch' = dispatch \/ dispatch' = DispatchIdle)]_vars
  /\ [](running.dispatcher = RUNNING)
  /\ [][Dispatches =>
          /\ dispatch.pc = "idle"
          /\ dispatch' =
               IF Head(outbound).channel \in EnabledChannels
               THEN [pc |-> "sending", adapter |-> Some(Head(outbound).channel),
                     msg |-> Some(Head(outbound))]
               ELSE DispatchIdle]_vars
  /\ []<>(outbound = << >> /\ dispatch.pc = "idle")

\* a send has thrown, a message for a channel without adapter has been
\* discarded, and the dispatcher is sending the message that came after them
C29_Witness ==
  /\ hist.sendThrew = 1
  /\ dispatch.pc = "sending"
  /\ dispatch.msg[1].channel = TELEGRAM
  /\ store[<<"j1">>].runs = 2
  /\ running.dispatcher = RUNNING


\* the message tool publishes for a call made in the run loop's turn, which
\* is the turn of a message that came from a channel
BusTurnToolSends ==
  /\ hist'.toolPub = hist.toolPub + 1
  /\ ~turn["bus"].system

\* C30: a message-tool call that names no channel and no chat, made in the
\* turn of inbound message m, is addressed to m's channel and chat id with
\* m's metadata, whatever other turn has started in the meantime
C30_ToolTargetIsOwnTurn ==
  [][BusTurnToolSends =>
       /\ outbound'[Len(outbound')].channel = turn["bus"].msg.channel
       /\ outbound'[Len(outbound')].chatId = turn["bus"].msg.chatId
       /\ outbound'[Len(outbound')].metadata = turn["bus"].msg.metadata]_vars


\* C31: distinct keys have distinct durable records: a save or a delete of
\* the session of one key leaves what a load of any other key returns as
\* it was
C31_KeysHaveOwnRecords ==
  [][(StoreStep("save") \/ StoreStep("delete")) =>
       \A other \in CollidingKeys \ {hist'.op[1].key} :
         load(other, disk') = load(other, disk)]_vars


----------------------------------------------------------------------------
\* the step in which lane l's turn returns on the model response made from
\* g, a response without tool calls
AnswersWith(l, g) ==
  /\ ChatReturn(l, g)
  /\ ~hasToolCalls(chat(g))
  /\ turn'[l].pc = "done"

\* the step in which lane l's turn returns after its last tool call, the
\* while condition being false
ReturnsAtCap(l) ==
  /\ turn[l].pc = "tool"
  /\ turn'[l].pc = "done"

FallbackString(t) ==
  IF t.msg.channel = SYSTEM
  THEN <<"Background task completed.">>
  ELSE <<"I've completed processing but have no response to give.">>

(* C32 as stated: a turn that returns on a response without tool calls
   returns that response's own content, also when it is empty or null; the
   fixed fallback string is returned only by a turn that used up its
   iterations. *)
C32_FallbackOnlyAtCap ==
  [][\A l \in Lanes :
       /\ \A g \in GenerateResults :
            AnswersWith(l, g) =>
              chat(g).content = Some(turn'[l].result[1].content)
       /\ (Completes(l) /\ turn'[l].result[1].content = FallbackString(turn[l]))
            => ReturnsAtCap(l) /\ turn[l].iteration = MaxIterations]_vars

(* C32: a turn that returns on a response without tool calls returns that
   response's content when the response has content, and the fixed fallback
   string when its content is null (chat() turns an empty text into null);
   the fallback string is returned only by such a turn and by a turn that
   used up its iterations. *)
C32_FallbackWithoutText ==
  [][\A l \in Lanes :
       /\ \A g \in GenerateResults :
            AnswersWith(l, g) =>
              turn'[l].result[1].content =
                IF chat(g).content = None THEN FallbackString(turn[l])
                ELSE chat(g).content[1]
       /\ (Completes(l) /\ turn'[l].result[1].content = FallbackString(turn[l]))
            => \/ ReturnsAtCap(l) /\ turn[l].iteration = MaxIterations
               \/ \E g \in GenerateResults :
                    AnswersWith(l, g) /\ chat(g).content = None]_vars

\* the turn of a subagent's announce has returned the system fallback on its
\* first model response, which had neither text nor tool calls
C32_Witness ==
  /\ turn["bus"].system
  /\ turn["bus"].pc = "done"
  /\ turn["bus"].iteration = 1
  /\ ToolRounds(turn["bus"]) = 0
  /\ turn["bus"].result[1].content = SystemFallback


----------------------------------------------------------------------------
\* both lanes are between getOrCreate and save for one session key
Interleaved ==
  /\ Active(turn["bus"])
  /\ Active(turn["sched"])
  /\ heap[turn["bus"].session].key = heap[turn["sched"].session].key

(* C33: two turns on one session key that interleave at their awaits hold
   the same cached Session object, and each turn that completes appends its
   pair, user entry then assistant entry, to the end of what the cache holds
   for the key at that moment and writes the whole sequence: the pairs are
   contiguous, and the pair of the turn that completed first is neither lost
   nor overwritten by the other. *)
C33_InterleavedTurnsKeepPairs ==
  /\ [](Interleaved =>
          /\ turn["bus"].session = turn["sched"].session
          /\ cache[heap[turn["bus"].session].key] = turn["bus"].session)
  /\ [][\A l \in Lanes :
          Completes(l) =>
            LET t == turn[l]
                key == heap[t.session].key
                before == heap[cache[key]].messages
                after == heap'[cache'[key]].messages
                n == Len(before)
            IN /\ Len(after) = n + 2
               /\ SubSeq(after, 1, n) = before
               /\ after[n + 1].role = "user"
               /\ after[n + 1].content = UserEntryContent(t)
               /\ after[n + 2].role = "assistant"
               /\ after[n + 2].content = turn'[l].result[1].content
               /\ ParseLines(disk'[getSessionPath(key)].lines,
                             << >>, EmptyMetadata, None).messages = after]_vars

\* the run loop's turn began on session cli:direct while the scheduler's
\* turn on it was under way; the scheduler's turn completed first, then the
\* run loop's: cache and record hold what was there, then the scheduler's
\* pair, then the run loop's pair
C33_Witness ==
  /\ turn["bus"].pc = "done"
  /\ turn["sched"].pc = "done"
  /\ turn["bus"].session = turn["sched"].session
  /\ LET session == heap[turn["bus"].session]
         n == Len(hist.before)
     IN /\ cache[session.key] = turn["bus"].session
        /\ Len(session.messages) = n + 4
        /\ SubSeq(session.messages, 1, n) = hist.before
        /\ session.messages[n + 1].content = UserEntryContent(turn["sched"])
        /\ session.messages[n + 2].content = turn["sched"].result[1].content
        /\ session.messages[n + 3].content = UserEntryContent(turn["bus"])
        /\ session.messages[n + 4].content = turn["bus"].result[1].content
        /\ Persisted(session.key) = session.messages


----------------------------------------------------------------------------
\* the dispatcher hands a message to the Yunhu adapter's send
SendsOnYunhu ==
  /\ dispatch.pc = "idle"
  /\ dispatch'.pc = "sending"
  /\ dispatch'.adapter = Some(YUNHU)

\* the chats of the Yunhu channel by kind, and who wrote in a private chat
GroupChats ==
  {m.chatId : m \in {e \in YunhuEvents : e.metadata.chatType = "group"}}

PrivateSenders(chatId) ==
  {m.senderId : m \in {e \in YunhuEvents :
                         e.metadata.chatType = "bot" /\ e.chatId = chatId}}

(* C34: whatever the Yunhu channel is given to send for the chat id of a
   group chat it sends with recvType group to that chat id, also the reply
   to a system-channel turn for that chat and a scheduler's delivery to it;
   whatever it is given for a private chat it sends to the user who wrote
   in it. *)
C34_YunhuRecipient ==
  [][SendsOnYunhu =>
       LET msg == dispatch'.msg[1]
           recv == parseRecvInfo(msg.chatId, msg.metadata)
       IN /\ msg.chatId \in GroupChats =>
               /\ recv.recvType = "group"
               /\ recv.recvId = msg.chatId
          /\ PrivateSenders(msg.chatId) # {} =>
               /\ recv.recvType = "user"
               /\ recv.recvId \in PrivateSenders(msg.chatId)]_vars

(* the same for the replies of turns on messages of the Yunhu channel alone:
   the reply carries the metadata of the inbound message *)
C34_RepliesToYunhuMessages ==
  [][(SendsOnYunhu /\ dispatch'.msg[1].metadata # EmptyMetadata) =>
       LET msg == dispatch'.msg[1]
           recv == parseRecvInfo(msg.chatId, msg.metadata)
       IN /\ msg.chatId \in GroupChats =>
               /\ recv.recvType = "group"
               /\ recv.recvId = msg.chatId
          /\ PrivateSenders(msg.chatId) # {} =>
               /\ recv.recvType = "user"
               /\ recv.recvId \in PrivateSenders(msg.chatId)]_vars


----------------------------------------------------------------------------
(* C35: send makes no send attempt when the channel is not running at the
   call; otherwise it makes at least one and at most 3 attempts for the
   message, stops at the first attempt that succeeds, waits between
   consecutive attempts only, 2000 ms after the first failure and 4000 ms
   after the second, and throws the last error exactly when all 3 attempts
   failed. *)
C35_SendRetries ==
  /\ [][(yunhuSend.pc = "idle" /\ yunhuSend'.msg # None
          /\ hist'.events = hist.events + 1) =>
          IF yunhuSend.running
          THEN yunhuSend'.pc = "attempt" /\ Len(yunhuSend'.requests) = 1
          ELSE /\ yunhuSend'.pc = "idle"
               /\ yunhuSend'.requests = << >>
               /\ yunhuSend'.outcome = "returned"]_vars
  /\ [](LET s == yunhuSend
            attempts == Len(s.requests)
            failed == Len(s.errors)
        IN /\ ~s.started => attempts = 0 /\ s.pc = "idle" /\ s.outcome # "threw"
           /\ s.started =>
                /\ attempts >= 1
                /\ attempts <= 3
                /\ \A r \in 1..attempts :
                     s.requests[r] = parseRecvInfo(s.msg[1].chatId, s.msg[1].metadata)
                /\ s.pc = "attempt" => failed = attempts - 1 /\ Len(s.waits) = failed
                /\ s.pc = "wait" => failed = attempts /\ Len(s.waits) = failed
                /\ s.pc = "idle" =>
                     /\ s.outcome \in {"returned", "threw"}
                     /\ Len(s.waits) = attempts - 1
                     /\ s.outcome = "returned" => failed = attempts - 1
                     /\ s.outcome = "threw" <=> failed = 3
                     /\ s.outcome = "threw" <=> s.thrown # None
                     /\ s.outcome = "threw" => s.thrown = Some(s.errors[3])
                /\ \A w \in 1..Len(s.waits) :
                     s.waits[w] = IF w = 1 THEN 2000 ELSE 4000)
  /\ [][(yunhuSend.outcome = "returned" /\ hist'.events = hist.events) =>
          yunhuSend'.requests = yunhuSend.requests]_vars

\* a send has thrown after three attempts: the first two failed on a null
\* response, the third on an API error, which is the error thrown; it waited
\* 2000 ms and 4000 ms
C35_Witness ==
  /\ yunhuSend.outcome = "threw"
  /\ Len(yunhuSend.requests) = 3
  /\ yunhuSend.errors = <<<<"Yunhu API returned null response">>,
                          <<"Yunhu API returned null response">>,
                          <<"Yunhu API error: ", "busy">>>>
  /\ yunhuSend.thrown = Some(<<"Yunhu API error: ", "busy">>)
  /\ yunhuSend.waits = <<2000, 4000>>


----------------------------------------------------------------------------
\* the messages of the record left by the earlier run are among these
HoldsEarlier(messages) ==
  \E i \in 1..Len(messages) : messages[i].content = EarlierSession.messages[1].content

\* neither the cached session of the key nor what load() reads from its
\* record holds the earlier messages
Gone(key, h, c, d) ==
  /\ key \in DOMAIN c => ~HoldsEarlier(h[c[key]].messages)
  /\ load(key, d) # None => ~HoldsEarlier(load(key, d)[1].messages)

(* C36: after delete(key) the messages written to the session before it do
   not reappear: the delete leaves them neither in the cache nor in the
   durable record, a getOrCreate(key) that follows it returns a session with
   no messages, and no later call, in particular no save of a session
   object obtained before the delete, brings them back to the cache or to
   the record. *)
C36_DeletedStaysDeleted ==
  [][\A key \in StoreKeys :
       /\ (StoreStep("delete") /\ hist'.op[1].key = key) =>
            Gone(key, heap', cache', disk')
       /\ (StoreStep("getOrCreate") /\ hist'.op[1].key = key /\ hist.op # None
             /\ hist.op[1].name = "delete" /\ hist.op[1].key = key) =>
            heap'[hist'.op[1].ref].messages = << >>
       /\ Gone(key, heap, cache, disk) => Gone(key, heap', cache', disk')]_vars

(* the same without the saves of session objects that getOrCreate handed out
   before the key was deleted *)
C36_WithoutStaleSaves ==
  [][\A key \in StoreKeys :
       (~(StoreStep("save") /\ hist'.op[1].key = key
            /\ (key \notin DOMAIN hist.got \/ hist.got[key] # hist'.op[1].ref))) =>
         /\ (StoreStep("delete") /\ hist'.op[1].key = key) =>
              Gone(key, heap', cache', disk')
         /\ (StoreStep("getOrCreate") /\ hist'.op[1].key = key /\ hist.op # None
               /\ hist.op[1].name = "delete" /\ hist.op[1].key = key) =>
              heap'[hist'.op[1].ref].messages = << >>
         /\ Gone(key, heap, cache, disk) => Gone(key, heap', cache', disk')]_vars


----------------------------------------------------------------------------
(* C37: a job that `cron add` has put in the durable job document stays in
   it until removeJob is called for it, whatever the gateway's scheduler,
   which loaded the list at startup, fires and rewrites in the meantime. *)
C37_AddedJobStays ==
  [][\A j \in CliJobs :
       (j.id \in DOMAIN jobsFile /\ ~CronRemove(j.id)) =>
         j.id \in DOMAIN jobsFile']_vars

(* the same for the steps of `cron add` and `cron remove` themselves and for
   every step of the gateway that does not write the document *)
C37_UntilGatewayWrites ==
  [][\A j \in CliJobs :
       (j.id \in DOMAIN jobsFile /\ ~CronRemove(j.id)
          /\ ~(\E fired \in Jobs : JobFire(fired))) =>
         j.id \in DOMAIN jobsFile']_vars


----------------------------------------------------------------------------
\* for every key that is cached and has a record, the record holds the
\* messages of the cached session
Coherent(h, c, d) ==
  \A key \in DOMAIN c :
    getSessionPath(key) \in DOMAIN d =>
      ParseLines(d[getSessionPath(key)].lines, << >>, EmptyMetadata, None).messages
        = h[c[key]].messages

\* the step in which the save at the end of lane l's turn throws
SaveThrowsIn(l) ==
  /\ turn[l].pc \in {"chat", "tool"}
  /\ turn'[l].pc = "threw"

(* C38: at every await, for each session key that is cached and has a
   durable record, the message sequence of the record equals the message
   sequence of the cached session. *)
C38_CacheAndRecordAgree == Coherent(heap, cache, disk)

(* the same for every step but a save that throws: such a step leaves cache
   and record in agreement when it finds them so *)
C38_UnlessSaveThrows ==
  [][(Coherent(heap, cache, disk) /\ ~(\E l \in Lanes : SaveThrowsIn(l))) =>
       Coherent(heap', cache', disk')]_vars

============================================================================
